---------------------------- MODULE Spec2Model ----------------------------
(***************************************************************************)
(* A model of the monitor pipeline of monitor_main.py: the cycle scheduler *)
(* of main(), its source adapters, the filter stage, rule_matches and      *)
(* generate_draft.                                                         *)
(*                                                                         *)
(* Text is modelled as a sequence of characters, each character a string   *)
(* atom: an ASCII character is the one-character string, a CJK character   *)
(* is the atom named by its pinyin ("qiu" "zhu" for the word of            *)
(* want_words[0]).  A Python dict is a record, a missing key is a field    *)
(* outside the record's DOMAIN.                                            *)
(***************************************************************************)
EXTENDS Integers, Sequences, FiniteSets, TLC

(***************************************************************************)
(* Bounds of the model.                                                    *)
(***************************************************************************)
\* the largest max_cycles a configuration of the model carries
MaxCycles == 3
\* the largest number of conditions of a rule drawn for the matcher
MaxConds == 2

(***************************************************************************)
(* str methods                                                             *)
(***************************************************************************)
UpperLetters == <<"A", "B", "C", "D", "E", "F", "G", "H", "I", "J", "K", "L", "M", "N", "O", "P", "Q", "R", "S", "T", "U", "V", "W", "X", "Y", "Z">>

LowerLetters == <<"a", "b", "c", "d", "e", "f", "g", "h", "i", "j", "k", "l", "m", "n", "o", "p", "q", "r", "s", "t", "u", "v", "w", "x", "y", "z">>

Digits == <<"0", "1", "2", "3", "4", "5", "6", "7", "8", "9">>

Range(s) == {s[i] : i \in DOMAIN s}

UpperSet == Range(UpperLetters)

\* the lower-case letter of every upper-case letter
LowerOf == [c \in UpperSet |->
              LowerLetters[CHOOSE i \in DOMAIN UpperLetters : UpperLetters[i] = c]]

\* str.lower() on one character: CJK atoms have no case
LowerChar(c) == IF c \in UpperSet THEN LowerOf[c] ELSE c

\* str.lower()
Lower(s) == [i \in DOMAIN s |-> LowerChar(s[i])]

\* `sub in s` of Python: sub is a contiguous part of s (the empty string is
\* in every string)
Contains(sub, s) ==
    \E i \in 0..(Len(s) - Len(sub)) : SubSeq(s, i + 1, i + Len(sub)) = sub

\* s.startswith(p)
StartsWith(s, p) == Len(p) <= Len(s) /\ SubSeq(s, 1, Len(p)) = p

\* s.find(c): the 1-based position of the first c at or after `from`,
\* 0 when there is none
Find(s, c, from) ==
    IF \E i \in from..Len(s) : s[i] = c
    THEN CHOOSE i \in from..Len(s) : s[i] = c /\ \A j \in from..(i - 1) : s[j] # c
    ELSE 0

\* dict.get(key, default)
Get(d, key, default) == IF key \in DOMAIN d THEN d[key] ELSE default

\* str(n) for the small positive numbers a position takes
RECURSIVE ToStr(_)
ToStr(n) == IF n < 10 THEN <<Digits[n + 1]>> ELSE ToStr(n \div 10) \o <<Digits[(n % 10) + 1]>>

(***************************************************************************)
(* urllib.parse.urlparse, as far as main() reads its result: the netloc    *)
(* and the path.  The characters ";" "[" "]" and leading blanks are not in *)
(* the alphabet of the model's URLs.                                       *)
(***************************************************************************)
AlphaSet == Range(UpperLetters) \cup Range(LowerLetters)

IsAlpha(c) == c \in AlphaSet

SchemeChars == Range(UpperLetters) \cup Range(LowerLetters) \cup Range(Digits) \cup {"+", "-", "."}

\* the end of the netloc: the earliest of "/", "?", "#" at or after `from`,
\* or one past the end of the text
NetlocEnd(url, from) ==
    LET hits == {i \in from..Len(url) : url[i] \in {"/", "?", "#"}}
    IN IF hits = {} THEN Len(url) + 1 ELSE CHOOSE i \in hits : \A j \in hits : i <= j

\* text before the first occurrence of c (all of it when c does not occur)
Before(s, c) == IF Find(s, c, 1) = 0 THEN s ELSE SubSeq(s, 1, Find(s, c, 1) - 1)

urlparse(url) ==
    LET i == Find(url, ":", 1)
        hasScheme == /\ i > 1
                     /\ IsAlpha(url[1])
                     /\ \A k \in 1..(i - 1) : url[k] \in SchemeChars
        scheme == IF hasScheme THEN Lower(SubSeq(url, 1, i - 1)) ELSE <<>>
        rest == IF hasScheme THEN SubSeq(url, i + 1, Len(url)) ELSE url
        hasNetloc == StartsWith(rest, <<"/", "/">>)
        e == NetlocEnd(rest, 3)
        netloc == IF hasNetloc THEN SubSeq(rest, 3, e - 1) ELSE <<>>
        tail == IF hasNetloc THEN SubSeq(rest, e, Len(rest)) ELSE rest
    IN [scheme |-> scheme, netloc |-> netloc, path |-> Before(Before(tail, "#"), "?")]

(***************************************************************************)
(* The filter stage of main(): the blacklist and the relevance check.      *)
(***************************************************************************)
blacklist == <<
    <<"a", "c", "a", "b", "r", "i", "d", "g", "e", ".", "c", "n">>,
    <<"e", "d", "i", "t", "s", "p", "r", "i", "n", "g", "s", ".", "c", "o", "m">>,
    <<"x", "u", "e", "s", "h", "u", "t", ".", "c", "o", "m">>,
    <<"x", "u", "e", "s", "h", "u", "l", "i", "n", ".", "c", "o", "m">>,
    <<"1", "0", "0", "x", "u", "e", "x", "i", ".", "c", "o", "m">>,
    <<"x", "u", "e", "s", "h", "u", "b", "a", "n", "g", ".", "o", "r", "g">>,
    <<"1", "6", "3", ".", "c", "o", "m">>,
    <<"p", "a", "p", "e", "r", "q", "q", ".", "c", "n">>,
    <<"p", "a", "p", "e", "r", "n", "e", "x", ".", "c", "n">>,
    <<"p", "a", "p", "e", "r", "f", "a", "c", "e", ".", "c", "n">>,
    <<"p", "a", "p", "e", "r", "b", "e", "r", "t", ".", "c", "o", "m">>,
    <<"c", "s", "d", "n", "i", "m", "g", ".", "c", "n">>,
    <<"s", "o", "h", "u", ".", "c", "o", "m">>,
    <<"q", "q", ".", "c", "o", "m">> >>

keep_patterns == << <<"/", "q", "u", "e", "s", "t", "i", "o", "n">>, <<"/", "p", "/">>, <<"/", "r", "/">>, <<"/", "t", "i", "e", "b", "a", ".", "b", "a", "i", "d", "u", ".", "c", "o", "m", "/", "p">>, <<"t", "h", "r", "e", "a", "d">> >>

want_words == << <<"qiu", "zhu">>, <<"bang", "mang">>, <<"zen", "me", "ban">>, <<"zen", "me", "xie">>, <<"q", "u", "e", "s", "t", "i", "o", "n">>, <<"h", "e", "l", "p">>, <<"jiang", "zhong">> >>

\* parsed = urlparse(url if url.startswith("http") else "http://" + url)
ParsedUrl(url) == urlparse(IF StartsWith(url, <<"h", "t", "t", "p">>) THEN url ELSE <<"h", "t", "t", "p", ":", "/", "/">> \o url)

\* any(bad in host for bad in blacklist)
Blacklisted(ev) ==
    LET host == Lower(ParsedUrl(Get(ev, "url", <<>>)).netloc)
    IN \E k \in DOMAIN blacklist : Contains(blacklist[k], host)

\* any(pat in path ...) or any(w.lower() in title_text ...)
Relevant(ev) ==
    LET path == Lower(ParsedUrl(Get(ev, "url", <<>>)).path)
        title_text == Lower(Get(ev, "title", <<>>))
    IN \/ \E k \in DOMAIN keep_patterns : Contains(keep_patterns[k], path)
       \/ \E k \in DOMAIN want_words : Contains(Lower(want_words[k]), title_text)

\* an event the loop of main() does not `continue` past
FilterPass(ev) == ~Blacklisted(ev) /\ Relevant(ev)

\* a brief record that leaves the URL out
BriefNoUrl(ev) ==
    [id |-> Get(ev, "id", <<>>),
     source |-> Get(ev, "source", <<>>),
     title |-> Get(ev, "title", <<>>),
     url |-> <<>>,
     content |-> Get(ev, "content", <<>>),
     metadata |-> Get(ev, "metadata", <<>>)]

\* the record appended to events_brief
Brief(ev) ==
    [id |-> Get(ev, "id", <<>>),
     source |-> Get(ev, "source", <<>>),
     title |-> Get(ev, "title", <<>>),
     url |-> Get(ev, "url", <<>>),
     content |-> Get(ev, "content", <<>>),
     metadata |-> Get(ev, "metadata", <<>>)]

(***************************************************************************)
(* rule_matches                                                            *)
(***************************************************************************)
\* the lower-cased fields a condition may name
text_fields(event) ==
    [title |-> Lower(Get(event, "title", <<>>)),
     content |-> Lower(Get(event, "content", <<>>)),
     source |-> Lower(Get(event, "source", <<>>))]

\* a condition of the unrecognized-type branch that lets the rule go on
\* (fail-open), and a not_contains_any that fails only when every value occurs
CondFailsOpen(event, cond) ==
    LET ctype == Get(cond, "type", "None")
        value == Get(cond, "value", <<>>)
        values == Get(cond, "values", <<>>)
        text == Lower(Get(text_fields(event), Get(cond, "field", ""), <<>>))
    IN  IF ctype = "contains" THEN ~Contains(Lower(value), text)
        ELSE IF ctype = "contains_any"
             THEN ~(\E k \in DOMAIN values : Contains(Lower(values[k]), text))
        ELSE IF ctype = "equals" THEN text # Lower(value)
        ELSE IF ctype = "not_contains_any"
             THEN \E k \in DOMAIN values : Contains(Lower(values[k]), text)
        ELSE FALSE

CondFailsAllValues(event, cond) ==
    LET ctype == Get(cond, "type", "None")
        value == Get(cond, "value", <<>>)
        values == Get(cond, "values", <<>>)
        text == Lower(Get(text_fields(event), Get(cond, "field", ""), <<>>))
    IN  IF ctype = "contains" THEN ~Contains(Lower(value), text)
        ELSE IF ctype = "contains_any"
             THEN ~(\E k \in DOMAIN values : Contains(Lower(values[k]), text))
        ELSE IF ctype = "equals" THEN text # Lower(value)
        ELSE IF ctype = "not_contains_any"
             THEN \A k \in DOMAIN values : Contains(Lower(values[k]), text)
        ELSE TRUE

\* one pass of the loop body: TRUE when the body executes `return False`
CondFails(event, cond) ==
    LET ctype == Get(cond, "type", "None")
        value == Get(cond, "value", <<>>)
        values == Get(cond, "values", <<>>)
        text == Lower(Get(text_fields(event), Get(cond, "field", ""), <<>>))
    IN  IF ctype = "contains" THEN ~Contains(Lower(value), text)
        ELSE IF ctype = "contains_any"
             THEN ~(\E k \in DOMAIN values : Contains(Lower(values[k]), text))
        ELSE IF ctype = "equals" THEN text # Lower(value)
        ELSE IF ctype = "not_contains_any"
             THEN \E k \in DOMAIN values : Contains(Lower(values[k]), text)
        ELSE TRUE

\* for cond in conditions: ... return False; return True
RECURSIVE CondLoop(_, _, _)
CondLoop(event, conditions, i) ==
    IF i > Len(conditions) THEN TRUE
    ELSE IF CondFails(event, conditions[i]) THEN FALSE
    ELSE CondLoop(event, conditions, i + 1)

rule_matches(event, rule) == CondLoop(event, Get(rule, "conditions", <<>>), 1)

(***************************************************************************)
(* generate_draft.  A template is the sequence of the parts str.format     *)
(* sees: literal text ([lit |-> text]) and replacement fields              *)
(* ([ph |-> name]).                                                        *)
(***************************************************************************)
\* what an operator yields when the code raises KeyError: no text, no draft
KeyError == <<"KeyError">>

Raised(x) == "raised" \in DOMAIN x

\* "Hello, saw your post '{title}'."
DefaultTemplate == << [lit |-> <<"H", "e", "l", "l", "o", ",", " ", "s", "a", "w", " ", "y", "o", "u", "r", " ", "p", "o", "s", "t", " ", "'">>], [ph |-> "title"], [lit |-> <<"'", ".">>] >>

RECURSIVE FormatParts(_, _, _)
FormatParts(tpl, kwargs, i) ==
    IF i > Len(tpl) THEN <<>>
    ELSE (IF "ph" \in DOMAIN tpl[i] THEN kwargs[tpl[i].ph] ELSE tpl[i].lit)
         \o FormatParts(tpl, kwargs, i + 1)

\* tpl.format(**kwargs): a replacement field that names no keyword raises
format(tpl, kwargs) ==
    IF \E i \in DOMAIN tpl : "ph" \in DOMAIN tpl[i] /\ tpl[i].ph \notin DOMAIN kwargs
    THEN KeyError
    ELSE FormatParts(tpl, kwargs, 1)

generate_draft(event, rule, templates) ==
    LET tpl == Get(templates, Get(rule, "template", "None"), DefaultTemplate)
        draft_text == format(tpl, [title |-> Get(event, "title", <<>>),
                                   content |-> Get(event, "content", <<>>),
                                   url |-> Get(event, "url", <<>>),
                                   source |-> Get(event, "source", <<>>)])
    IN IF draft_text = KeyError THEN [raised |-> KeyError]
       ELSE [event_id |-> event.id,
             rule_id |-> Get(rule, "id", <<>>),
             lang |-> Get(rule, "target_lang", Get(event, "lang", <<"e", "n">>)),
             draft_text |-> draft_text]

(***************************************************************************)
(* parse_events_with_selectors.  A document is the sequence of its         *)
(* elements in document order; an element has the selector it answers to   *)
(* (sel), its attributes (attrs) and, per selector, the first descendant   *)
(* that matches it (kids: selector -> [text, attrs]).                      *)
(***************************************************************************)
\* str.strip() of get_text(strip=True)
RECURSIVE Strip(_)
Strip(s) ==
    IF s = <<>> THEN s
    ELSE IF Head(s) = " " THEN Strip(Tail(s))
    ELSE IF s[Len(s)] = " " THEN Strip(SubSeq(s, 1, Len(s) - 1))
    ELSE s

\* soup.select(container_sel)
Select(html, container_sel) == SelectSeq(html, LAMBDA n : n.sel = container_sel)

\* an extraction that counts the containers from 0
ExtractEventZeroBased(c, idx, sel, source_name) ==
    LET title_sel == Get(sel, "title", "h2")
        content_sel == Get(sel, "content", "p")
        link_sel == Get(sel, "link", "a")
        id_attr == Get(sel, "id_attr", "data-id")
        created_attr == Get(sel, "created_at_attr", "data-created-at")
        lang_attr == Get(sel, "lang_attr", "data-lang")
        given_id == Get(c.attrs, id_attr, <<>>)
    IN [id |-> IF given_id # <<>> THEN given_id
               ELSE source_name \o <<"_">> \o ToStr(idx - 1),
        source |-> source_name,
        url |-> IF link_sel \in DOMAIN c.kids THEN Get(c.kids[link_sel].attrs, "href", <<>>)
                ELSE <<>>,
        title |-> IF title_sel \in DOMAIN c.kids THEN Strip(c.kids[title_sel].text) ELSE <<>>,
        content |-> IF content_sel \in DOMAIN c.kids THEN Strip(c.kids[content_sel].text)
                    ELSE <<>>,
        created_at |-> Get(c.attrs, created_attr, <<>>),
        lang |-> Get(c.attrs, lang_attr, <<"e", "n">>),
        metadata |-> {}]

\* one event of the loop over enumerate(containers, 1)
ExtractEvent(c, idx, sel, source_name) ==
    LET title_sel == Get(sel, "title", "h2")
        content_sel == Get(sel, "content", "p")
        link_sel == Get(sel, "link", "a")
        id_attr == Get(sel, "id_attr", "data-id")
        created_attr == Get(sel, "created_at_attr", "data-created-at")
        lang_attr == Get(sel, "lang_attr", "data-lang")
        given_id == Get(c.attrs, id_attr, <<>>)
    IN [id |-> IF given_id # <<>> THEN given_id ELSE source_name \o <<"_">> \o ToStr(idx),
        source |-> source_name,
        url |-> IF link_sel \in DOMAIN c.kids THEN Get(c.kids[link_sel].attrs, "href", <<>>)
                ELSE <<>>,
        title |-> IF title_sel \in DOMAIN c.kids THEN Strip(c.kids[title_sel].text) ELSE <<>>,
        content |-> IF content_sel \in DOMAIN c.kids THEN Strip(c.kids[content_sel].text)
                    ELSE <<>>,
        created_at |-> Get(c.attrs, created_attr, <<>>),
        lang |-> Get(c.attrs, lang_attr, <<"e", "n">>),
        metadata |-> {}]

parse_events_with_selectors(html, cfg, source_name) ==
    LET sel == Get(cfg, "selectors", <<>>)
        containers == Select(html, Get(sel, "container", "article"))
    IN [idx \in 1..Len(containers) |-> ExtractEvent(containers[idx], idx, sel, source_name)]

\* parse_events_from_html: the selectors of the configuration are not passed on
parse_events_from_html(html, source_name) ==
    parse_events_with_selectors(html, [selectors |-> <<>>], source_name)

\* a loop that leaves the events as the extractor made them
TagQueryNone(evs, q) == evs

\* ev["metadata"]["query"] = q for every event of one query
TagQuery(evs, q) == [i \in DOMAIN evs |-> [evs[i] EXCEPT !.metadata = {<<"query", q>>}]]


(***************************************************************************)
(* The search adapters: duckduckgo_search_fetch, apply_site_defaults and   *)
(* what browser_search_fetch computes.                                     *)
(***************************************************************************)
\* domain_map of duckduckgo_search_fetch (None is the empty text)
domain_map ==
    (<<"d", "u", "c", "k", "d", "u", "c", "k", "g", "o">> :> <<>>) @@ (<<"z", "h", "i", "h", "u">> :> <<"z", "h", "i", "h", "u", ".", "c", "o", "m">>) @@ (<<"c", "s", "d", "n">> :> <<"c", "s", "d", "n", ".", "n", "e", "t">>)
    @@ (<<"t", "i", "e", "b", "a">> :> <<"t", "i", "e", "b", "a", ".", "b", "a", "i", "d", "u", ".", "c", "o", "m">>) @@ (<<"r", "e", "d", "d", "i", "t">> :> <<"r", "e", "d", "d", "i", "t", ".", "c", "o", "m">>)

\* full_q = f"site:{domain} {q}" if domain else q
full_q(site, q) ==
    LET domain == Get(domain_map, site, <<>>)
    IN IF domain # <<>> THEN <<"s", "i", "t", "e", ":">> \o domain \o <<" ">> \o q ELSE q

\* r.select_one(a) or r.select_one(b) or ...: the first of the selectors
\* that finds an element (0: none does)
RECURSIVE FirstKid(_, _, _)
FirstKid(r, sels, i) ==
    IF i > Len(sels) THEN 0
    ELSE IF sels[i] \in DOMAIN r.kids THEN i
    ELSE FirstKid(r, sels, i + 1)

\* results[:max_results]
Truncate(results, max_results) ==
    SubSeq(results, 1, IF Len(results) < max_results THEN Len(results) ELSE max_results)

\* a result loop that numbers the results of every query from the site alone
DdgResultsNoQueryInId(html, site, q, max_results) ==
    LET found == Select(html, "div.result")
        results == Truncate(IF found # <<>> THEN found ELSE Select(html, "td.result-link"),
                            max_results)
        aSels == <<"a.result__a", "a">>
        sSels == <<"a.result__snippet", "div.result__snippet", "td.result-snippet">>
    IN [idx \in 1..Len(results) |->
          LET r == results[idx]
              a == FirstKid(r, aSels, 1)
              snippet == FirstKid(r, sSels, 1)
          IN [id |-> site \o <<"_">> \o ToStr(idx),
              source |-> site,
              url |-> IF a # 0 THEN Get(r.kids[aSels[a]].attrs, "href", <<>>) ELSE <<>>,
              title |-> IF a # 0 THEN Strip(r.kids[aSels[a]].text) ELSE <<>>,
              content |-> IF snippet # 0 THEN Strip(r.kids[sSels[snippet]].text) ELSE <<>>,
              created_at |-> <<>>,
              lang |-> <<"e", "n">>,
              metadata |-> {<<"query", q>>}]]

\* the events of one answered query of duckduckgo_search_fetch
DdgResults(html, site, q, max_results) ==
    LET found == Select(html, "div.result")
        results == Truncate(IF found # <<>> THEN found ELSE Select(html, "td.result-link"),
                            max_results)
        aSels == <<"a.result__a", "a">>
        sSels == <<"a.result__snippet", "div.result__snippet", "td.result-snippet">>
    IN [idx \in 1..Len(results) |->
          LET r == results[idx]
              a == FirstKid(r, aSels, 1)
              snippet == FirstKid(r, sSels, 1)
          IN [id |-> site \o <<"_">> \o q \o <<"_">> \o ToStr(idx),
              source |-> site,
              url |-> IF a # 0 THEN Get(r.kids[aSels[a]].attrs, "href", <<>>) ELSE <<>>,
              title |-> IF a # 0 THEN Strip(r.kids[aSels[a]].text) ELSE <<>>,
              content |-> IF snippet # 0 THEN Strip(r.kids[sSels[snippet]].text) ELSE <<>>,
              created_at |-> <<>>,
              lang |-> <<"e", "n">>,
              metadata |-> {<<"query", q>>}]]

\* the table of apply_site_defaults
defaults ==
    (<<"z", "h", "i", "h", "u">> :>
        [search_page_url |-> <<"h", "t", "t", "p", "s", ":", "/", "/", "w", "w", "w", ".", "z", "h", "i", "h", "u", ".", "c", "o", "m", "/", "s", "e", "a", "r", "c", "h", "?", "q", "=", "{", "q", "u", "e", "r", "y", "}">>,
         selectors |->
            [container |-> "div.Card.SearchResult", title |-> ".ContentItem-title",
             content |-> ".RichContent-inner", link |-> ".ContentItem-title a",
             id_attr |-> "data-id", created_at_attr |-> "", lang_attr |-> "",
             search_input |-> "input.SearchBar-input", search_button |-> "",
             wait_for |-> ".Card.SearchResult"]])
    @@ (<<"c", "s", "d", "n">> :>
        [search_page_url |-> <<"h", "t", "t", "p", "s", ":", "/", "/", "s", "o", ".", "c", "s", "d", "n", ".", "n", "e", "t", "/", "s", "o", "/", "s", "e", "a", "r", "c", "h", "?", "q", "=", "{", "q", "u", "e", "r", "y", "}">>,
         selectors |->
            [container |-> "div.result-item", title |-> ".result-title",
             content |-> ".result-desc", link |-> ".result-title a",
             id_attr |-> "data-id", created_at_attr |-> "", lang_attr |-> "",
             search_input |-> "input#keyword", search_button |-> "button[type='submit']",
             wait_for |-> "div.result-item"]])
    @@ (<<"t", "i", "e", "b", "a">> :>
        [search_page_url |-> <<"h", "t", "t", "p", "s", ":", "/", "/", "t", "i", "e", "b", "a", ".", "b", "a", "i", "d", "u", ".", "c", "o", "m", "/", "f", "?", "i", "e", "=", "u", "t", "f", "-", "8", "&", "k", "w", "=", "{", "q", "u", "e", "r", "y", "}">>,
         selectors |->
            [container |-> "div.threadlist_li_right", title |-> "a.j_th_tit",
             content |-> "div.threadlist_abs", link |-> "a.j_th_tit",
             id_attr |-> "data-tid", created_at_attr |-> "", lang_attr |-> "",
             search_input |-> "input.tbui_aside_search_input",
             search_button |-> "a.search_btn", wait_for |-> "div.threadlist_li_right"]])
    @@ (<<"r", "e", "d", "d", "i", "t">> :>
        [search_page_url |-> <<"h", "t", "t", "p", "s", ":", "/", "/", "w", "w", "w", ".", "r", "e", "d", "d", "i", "t", ".", "c", "o", "m", "/", "s", "e", "a", "r", "c", "h", "/", "?", "q", "=", "{", "q", "u", "e", "r", "y", "}">>,
         selectors |->
            [container |-> "div.Search__results article", title |-> "h3",
             content |-> "div[data-click-id='body']", link |-> "a[data-click-id='body']",
             id_attr |-> "", created_at_attr |-> "", lang_attr |-> "",
             search_input |-> "input#header-search-bar", search_button |-> "",
             wait_for |-> "div.Search__results article"]])

\* source_cfg[key] = value
SetKey(d, key, value) == [k \in DOMAIN d \cup {key} |-> IF k = key THEN value ELSE d[k]]

\* defaults that give a site without an entry the entry of zhihu
apply_site_defaults_any(source_cfg, site) ==
    [filled |-> TRUE,
     source_cfg |->
        SetKey(SetKey(source_cfg, "search_page_url", defaults[<<"z", "h", "i", "h", "u">>].search_page_url),
               "selectors", defaults[<<"z", "h", "i", "h", "u">>].selectors)]

\* apply_site_defaults: what it returns and what it leaves in source_cfg
apply_site_defaults(source_cfg, site) ==
    IF site \in DOMAIN defaults
    THEN [filled |-> TRUE,
          source_cfg |->
             SetKey(SetKey(source_cfg, "search_page_url", defaults[site].search_page_url),
                    "selectors", defaults[site].selectors)]
    ELSE [filled |-> FALSE, source_cfg |-> source_cfg]

\* search_url.format(query=q) if "{query}" in search_url else search_url
\* (the templates of the model hold no other brace)
RECURSIVE UrlFor(_, _)
UrlFor(search_url, q) ==
    IF search_url = <<>> THEN <<>>
    ELSE IF StartsWith(search_url, <<"{", "q", "u", "e", "r", "y", "}">>)
         THEN q \o UrlFor(SubSeq(search_url, 8, Len(search_url)), q)
         ELSE <<Head(search_url)>> \o UrlFor(Tail(search_url), q)
(***************************************************************************)
(* The loop of main() over the events of a cycle: filter, brief record,    *)
(* and one draft per enabled rule that matches.                            *)
(***************************************************************************)
\* a rule loop that stops at the first rule that matches
RECURSIVE RuleLoopFirstMatch(_, _, _, _, _)
RuleLoopFirstMatch(ev, rules, templates, j, acc) ==
    IF j > Len(rules) \/ acc.raised THEN acc
    ELSE IF ~Get(rules[j], "enabled", TRUE)
         THEN RuleLoopFirstMatch(ev, rules, templates, j + 1, acc)
    ELSE IF rule_matches(ev, rules[j])
         THEN LET draft == generate_draft(ev, rules[j], templates)
              IN IF Raised(draft)
                 THEN [acc EXCEPT !.raised = TRUE]
                 ELSE [acc EXCEPT !.drafts = Append(@, draft), !.matched_events = @ + 1]
    ELSE RuleLoopFirstMatch(ev, rules, templates, j + 1, acc)

\* for rule in rules: acc is [drafts, matched_events, raised]
RECURSIVE RuleLoop(_, _, _, _, _)
RuleLoop(ev, rules, templates, j, acc) ==
    IF j > Len(rules) \/ acc.raised THEN acc
    ELSE IF ~Get(rules[j], "enabled", TRUE) THEN RuleLoop(ev, rules, templates, j + 1, acc)
    ELSE IF rule_matches(ev, rules[j])
         THEN LET draft == generate_draft(ev, rules[j], templates)
              IN IF Raised(draft)
                 THEN [acc EXCEPT !.raised = TRUE]
                 ELSE RuleLoop(ev, rules, templates, j + 1,
                               [acc EXCEPT !.drafts = Append(@, draft),
                                           !.matched_events = @ + 1])
    ELSE RuleLoop(ev, rules, templates, j + 1, acc)

\* for ev in events: acc is [events_brief, drafts, matched_events, raised].
\* The lists as they stand after the rules of one event (after) are a value
\* before the next event is taken up.
RECURSIVE EventLoop(_, _, _, _, _)
EventLoop(evs, rules, templates, i, acc) ==
    IF i > Len(evs) \/ acc.raised THEN acc
    ELSE IF ~FilterPass(evs[i]) THEN EventLoop(evs, rules, templates, i + 1, acc)
    ELSE CHOOSE out \in
            { EventLoop(evs, rules, templates, i + 1, after) :
                after \in { RuleLoop(evs[i], rules, templates, 1,
                                     [acc EXCEPT !.events_brief = Append(@, Brief(evs[i]))]) } } :
            TRUE

\* drafts, events_brief and matched_events as a cycle starts them
FreshLists == [events_brief |-> <<>>, drafts |-> <<>>, matched_events |-> 0, raised |-> FALSE]

\* the output_data of a cycle
OutputData(language, k, evs, acc) ==
    [language |-> language,
     cycle |-> k,
     total_events |-> Len(evs),
     matched_events |-> acc.matched_events,
     events |-> acc.events_brief,
     drafts |-> acc.drafts]

\* a write that appends to what the file holds
WriteTextAppends(file, doc) == Append(file, doc)

\* output_path.write_text(...): the file holds the one document written last
WriteText(file, doc) == <<doc>>

(***************************************************************************)
(* The documents the sources of the model serve.                           *)
(***************************************************************************)
Elem(text) == [text |-> text, attrs |-> <<>>]

Link(href) == [text |-> <<>>, attrs |-> ("href" :> href)]

Post(title, href) ==
    [sel |-> "article", attrs |-> <<>>,
     kids |-> ("h2" :> Elem(title)) @@ ("a" :> Link(href)) @@ ("p" :> Elem(<<"s", "o", "m", "e", " ", "t", "e", "x", "t">>))]

\* kept: the path holds "/p/" and the title a help word
PostHelp == Post(<<" ", "H", "e", "l", "p", " ", "m", "e", " ">>, <<"h", "t", "t", "p", ":", "/", "/", "o", "k", ".", "c", "o", "m", "/", "p", "/", "1">>)

\* a blacklisted host behind a scheme
PostSchemeBad == Post(<<"h", "e", "l", "p">>, <<"h", "t", "t", "p", "s", ":", "/", "/", "w", "w", "w", ".", "Q", "Q", ".", "c", "o", "m", "/", "p", "/", "2">>)

\* a blacklisted bare host
PostBareBad == Post(<<"a", "d">>, <<"1", "6", "3", ".", "c", "o", "m", "/", "q", "u", "e", "s", "t", "i", "o", "n", "/", "3">>)

\* a blacklisted host in a scheme-relative reference
PostRelBad == Post(<<"Q", "u", "e", "s", "t", "i", "o", "n">>, <<"/", "/", "w", "w", "w", ".", "s", "o", "h", "u", ".", "c", "o", "m", "/", "p", "/", "4">>)

\* a blacklisted host behind an upper-case scheme
PostUpperBad == Post(<<"a", "d">>, <<"H", "T", "T", "P", ":", "/", "/", "q", "q", ".", "c", "o", "m", "/", "t", "h", "r", "e", "a", "d", "/", "5">>)

\* a path-only link and a title without a help word
PostPath == Post(<<"a", "d">>, <<"/", "q", "u", "e", "s", "t", "i", "o", "n", "/", "6">>)

\* neither pattern nor help word
PostAd == [sel |-> "article", attrs |-> <<>>, kids |-> ("h2" :> Elem(<<"guang", "gao", "tui", "guang">>))]

\* an id of its own, no link, a help word in the title
PostQiuzhu ==
    [sel |-> "article", attrs |-> ("data-id" :> <<"e", "7">>) @@ ("data-lang" :> <<"z", "h">>),
     kids |-> ("h2" :> Elem(<<"qiu", "zhu", " ", "lun", "wen", "jiang", "zhong">>))]

\* an element the default container selector does not select
Banner == [sel |-> "div", attrs |-> <<>>, kids |-> ("h2" :> Elem(<<"h", "e", "l", "p">>))]

Pages ==
    { <<>>,
      <<PostQiuzhu, PostAd>>,
      <<PostHelp, PostSchemeBad>>,
      <<PostBareBad, PostPath>>,
      <<Banner, PostRelBad, PostHelp>>,
      <<PostUpperBad>> }

\* a container with nothing in it and no attribute
Bare == [sel |-> "article", attrs |-> <<>>, kids |-> <<>>]

\* a container with every element and every attribute
Full ==
    [sel |-> "article",
     attrs |-> ("data-id" :> <<"e", "1">>) @@ ("data-created-at" :> <<"2", "0", "2", "4">>)
               @@ ("data-lang" :> <<"z", "h">>),
     kids |-> ("h2" :> Elem(<<" ", "T", "1", " ">>)) @@ ("p" :> Elem(<<"b", "o", "d", "y">>))
              @@ ("a" :> Link(<<"h", "t", "t", "p", ":", "/", "/", "o", "k", ".", "c", "o", "m", "/", "p", "/", "1">>))]

\* a link without href and an id attribute that is empty
LinkNoHref ==
    [sel |-> "article", attrs |-> ("data-id" :> <<>>),
     kids |-> ("a" :> Elem(<<"m", "o", "r", "e">>)) @@ ("h2" :> Elem(<<>>))]

\* a container of another markup
Item ==
    [sel |-> "div.item", attrs |-> ("data-tid" :> <<"t", "9">>),
     kids |-> ("h3" :> Elem(<<"T", "9">>)) @@ ("a.more" :> Link(<<"/", "p", "/", "9">>))]

\* a result card of the zhihu search page
ZhihuCard ==
    [sel |-> "div.Card.SearchResult", attrs |-> ("data-id" :> <<"z", "1">>),
     kids |-> (".ContentItem-title" :> Elem(<<"lun", "wen", "zen", "me", "xie">>))
              @@ (".ContentItem-title a" :> Link(<<"h", "t", "t", "p", "s", ":", "/", "/", "w", "w", "w", ".", "z", "h", "i", "h", "u", ".", "c", "o", "m", "/", "q", "u", "e", "s", "t", "i", "o", "n", "/", "1">>))]

\* what the browser shows: page_source after a search
BrowserPages == { <<Item, ZhihuCard, PostHelp>>, <<>> }

\* a result of DuckDuckGo's HTML page, and one of its lite page
Result(title, href) ==
    [sel |-> "div.result", attrs |-> <<>>,
     kids |-> ("a.result__a" :> [text |-> title, attrs |-> ("href" :> href)])
              @@ ("a.result__snippet" :> Elem(<<"s", "n", "i", "p", "p", "e", "t">>))]

LiteResult == [sel |-> "td.result-link", attrs |-> <<>>, kids |-> ("a" :> Elem(<<" ", "qiu", "zhu", " ">>))]

\* the answers of DuckDuckGo: two results, a lite page, no result
DdgPages ==
    { << Result(<<"h", "e", "l", "p">>, <<"h", "t", "t", "p", "s", ":", "/", "/", "w", "w", "w", ".", "z", "h", "i", "h", "u", ".", "c", "o", "m", "/", "q", "u", "e", "s", "t", "i", "o", "n", "/", "2">>),
         Result(<<"jiang", "zhong">>, <<"h", "t", "t", "p", "s", ":", "/", "/", "z", "h", "u", "a", "n", "l", "a", "n", ".", "z", "h", "i", "h", "u", ".", "c", "o", "m", "/", "p", "/", "3">>) >>,
      << Banner, LiteResult >>,
      <<>> }

(***************************************************************************)
(* The configurations of the model.                                        *)
(***************************************************************************)
\* contains_any title ["求助", "降重"], template "Hi {title}"
RuleHelp ==
    [id |-> <<"r", "1">>,
     conditions |-> << [type |-> "contains_any", field |-> "title",
                        values |-> << <<"qiu", "zhu">>, <<"jiang", "zhong">> >>] >>,
     template |-> "t1"]

\* no conditions, a template id the templates do not hold
RuleAll == [id |-> <<"r", "2">>, enabled |-> TRUE, conditions |-> <<>>, template |-> "gone"]

\* disabled
RuleOff == [id |-> <<"r", "3">>, enabled |-> FALSE, conditions |-> <<>>, template |-> "t1"]

\* two conditions and a language of its own
RuleTwo ==
    [id |-> <<"r", "4">>,
     conditions |-> << [type |-> "contains", field |-> "title", value |-> <<"H", "E", "L", "P">>],
                       [type |-> "not_contains_any", field |-> "content",
                        values |-> << <<"s", "p", "a", "m">> >>] >>,
     template |-> "t1", target_lang |-> <<"z", "h">>]

\* a condition type rule_matches does not know
RuleRegex ==
    [id |-> <<"r", "5">>,
     conditions |-> << [type |-> "regex", field |-> "title", value |-> <<"h", "e", "l", "p">>] >>,
     template |-> "t1"]

\* a template with a replacement field generate_draft does not pass
RuleAuthor ==
    [id |-> <<"r", "6">>,
     conditions |-> << [type |-> "equals", field |-> "source", value |-> <<"F", "o", "r", "u", "m">>] >>,
     template |-> "t2"]

Templates ==
    [t1 |-> << [lit |-> <<"H", "i", " ">>], [ph |-> "title"] >>,
     t2 |-> << [lit |-> <<"D", "e", "a", "r", " ">>], [ph |-> "author"] >>]

RuleLists == { <<RuleHelp, RuleAll, RuleOff, RuleTwo, RuleRegex>>, <<RuleAuthor, RuleHelp>> }

\* repeat, max_cycles and interval_seconds, each given or left to its default
Schedules ==
    { [repeat |-> r, max_cycles |-> m, interval_seconds |-> s] :
        r \in BOOLEAN, m \in (-1)..MaxCycles, s \in {-1, 900} }
    \cup { [repeat |-> TRUE], [max_cycles |-> MaxCycles] }

Queries == { <<>>, << <<"q", "1">>, <<"q", "2">> >> }

Sources ==
    { [type |-> "file_html", path |-> <<"s", "a", "m", "p", "l", "e", ".", "h", "t", "m", "l">>],
      [type |-> "http_html", url |-> <<"h", "t", "t", "p", ":", "/", "/", "f", "o", "r", "u", "m", "/">>, name |-> <<"f", "o", "r", "u", "m">>],
      [type |-> "rss"] }
    \cup { [type |-> "http_html_search", search_url_template |-> <<"h", "t", "t", "p", ":", "/", "/", "f", "o", "r", "u", "m", "/", "?", "q", "=", "{", "q", "u", "e", "r", "y", "}">>,
            queries |-> qs] : qs \in Queries }

\* the queries of the search adapters
AdapterQueries == << <<"q", "1">>, <<"xie", "zuo">> >>

\* a search page and selectors of the caller's own
CallerUrl == <<"h", "t", "t", "p", ":", "/", "/", "m", "y", "/", "?", "q", "=", "{", "q", "u", "e", "r", "y", "}">>

CallerSelectors ==
    [container |-> "div.item", title |-> "h3", link |-> "a.more", id_attr |-> "data-tid",
     search_input |-> "input.q"]

BrowserSources ==
    { [type |-> "browser_search", search_page_url |-> CallerUrl, selectors |-> CallerSelectors,
       queries |-> AdapterQueries],
      [type |-> "browser_search", search_page_url |-> <<"h", "t", "t", "p", ":", "/", "/", "m", "y", "/", "s", "e", "a", "r", "c", "h">>,
       queries |-> << <<"q", "1">> >>],
      [type |-> "browser_search", queries |-> AdapterQueries],
      [type |-> "browser_search", search_page_url |-> <<"h", "t", "t", "p", ":", "/", "/", "m", "y", "/", "l", "o", "g", "i", "n", "?", "q", "=", "{", "q", "u", "e", "r", "y", "}">>,
       wait_login |-> TRUE, queries |-> AdapterQueries] }

EngineSources ==
    { [type |-> "search_engine", site |-> <<"z", "h", "i", "h", "u">>, queries |-> AdapterQueries],
      [type |-> "search_engine", engine |-> "duckduckgo", queries |-> AdapterQueries,
       max_results |-> 1],
      [type |-> "search_engine", engine |-> "browser", site |-> <<"z", "h", "i", "h", "u">>,
       queries |-> << <<"q", "1">> >>],
      [type |-> "search_engine", engine |-> "browser", site |-> <<"z", "h", "i", "h", "u">>,
       search_page_url |-> CallerUrl, selectors |-> CallerSelectors, queries |-> << <<"q", "1">> >>],
      [type |-> "search_engine", engine |-> "browser", site |-> <<"w", "e", "i", "b", "o">>,
       queries |-> AdapterQueries],
      [type |-> "search_engine", engine |-> "browser", site |-> <<"w", "e", "i", "b", "o">>,
       search_page_url |-> CallerUrl, selectors |-> CallerSelectors, queries |-> << <<"q", "1">> >>],
      [type |-> "search_engine", engine |-> "bing", site |-> <<"z", "h", "i", "h", "u">>,
       queries |-> AdapterQueries] }

\* the schedules of the runs of the search adapters, with a threshold
AdapterSchedules ==
    { [repeat |-> TRUE, max_cycles |-> 2, interval_seconds |-> 900, min_matches |-> 1],
      [repeat |-> FALSE] }

AdapterConfigs ==
    { sched @@ [language |-> <<"z", "h">>, rules |-> <<RuleHelp, RuleAll, RuleOff>>,
                templates |-> Templates, source |-> src] :
        sched \in AdapterSchedules, src \in BrowserSources \cup EngineSources }

\* runs with a min_matches threshold
WarnConfigs ==
    { [repeat |-> TRUE, max_cycles |-> 2, min_matches |-> m, language |-> <<"z", "h">>,
       rules |-> <<RuleHelp, RuleTwo>>, templates |-> Templates,
       source |-> [type |-> "file_html", path |-> <<"s", "a", "m", "p", "l", "e", ".", "h", "t", "m", "l">>]] : m \in {1, 2} }

\* a run whose second rule renders a template with an unknown placeholder
StrictConfigs ==
    { [repeat |-> TRUE, max_cycles |-> 2, language |-> <<"z", "h">>,
       rules |-> <<RuleHelp, RuleAuthor>>, templates |-> Templates,
       source |-> [type |-> "http_html", url |-> <<"h", "t", "t", "p", ":", "/", "/", "f", "o", "r", "u", "m", "/">>, name |-> <<"f", "o", "r", "u", "m">>]] }

\* a local file read with selectors of the caller's own
SelectorConfigs ==
    { [repeat |-> FALSE, language |-> <<"z", "h">>, rules |-> <<RuleHelp>>, templates |-> Templates,
       source |-> [type |-> "file_html", path |-> <<"s", "a", "m", "p", "l", "e", ".", "h", "t", "m", "l">>, name |-> <<"l", "o", "c", "a", "l">>,
                   selectors |-> [container |-> "div"]]] }

\* the configurations of the scheduler's runs
ScheduleConfigs ==
    { sched @@ [language |-> <<"z", "h">>, rules |-> rl, templates |-> Templates, source |-> src] :
        sched \in Schedules, rl \in RuleLists, src \in Sources }

Configs ==
    ScheduleConfigs \cup AdapterConfigs \cup WarnConfigs \cup StrictConfigs \cup SelectorConfigs
(***************************************************************************)
(* The state of a run of main().                                           *)
(***************************************************************************)
VARIABLES
    cfg,        \* the configuration document load_config returned
    pc,         \* where main() stands: "loop", "query", "process", "sleep",
                \* "done" (returned) or "error" (an exception left main)
    cycle,      \* the cycle counter
    events,     \* the events of the current cycle
    qi,         \* http_html_search: the position of the next query
    artifact,   \* the output file: the documents it holds (none: no file)
    progress,   \* the progress stream: its last line (none: no line yet)
    hist,       \* what the run did to the outside, in order: fetch, write,
                \* log, sleep
    exc,        \* the exception that left main(), or is on its way out of
                \* browser_search_fetch (none: none)
    uc,         \* whether undetected_chromedriver and selenium could be imported
    drivers,    \* the browser sessions that are open, by their number
    mEvent,     \* the matcher on its own: the event,
    mRule,      \*   the rule,
    mOut,       \*   and what rule_matches returned (none: not yet called)
    pHtml,      \* the selector extractor on its own: the document,
    pCfg,       \*   the source configuration and the source name,
    pOut,       \*   and what parse_events_with_selectors returned
    running,    \* the control surface (MonitorGUI): its running flag,
    progress_value, \*   the value of its progress bar,
    progress_max,   \*   and the maximum of the bar,
    worker,     \* its worker threads: where each one stands,
    cycle_read  \*   and the cycle of the last progress line each one read

vars ==
    <<cfg, pc, cycle, events, qi, artifact, progress, hist, exc, uc, drivers,
      mEvent, mRule, mOut, pHtml, pCfg, pOut,
      running, progress_value, progress_max, worker, cycle_read>>

matcherVars == <<mEvent, mRule, mOut>>

parserVars == <<pHtml, pCfg, pOut>>

guiVars == <<running, progress_value, progress_max, worker, cycle_read>>

\* the variables of what is checked on its own: the functions and the
\* control surface
pureVars == <<matcherVars, parserVars, guiVars>>

runVars == <<cfg, pc, cycle, events, qi, artifact, progress, hist, exc, uc, drivers>>

\* MonitorGUI.__init__: nothing runs, the bar is empty
GuiIdle ==
    /\ running = FALSE
    /\ progress_value = 0
    /\ progress_max = 1
    /\ worker = <<>>
    /\ cycle_read = <<>>

language == Get(cfg, "language", <<"e", "n">>)
rules == Get(cfg, "rules", <<>>)
templates == Get(cfg, "templates", <<>>)
repeat == Get(cfg, "repeat", FALSE)
interval == Get(cfg, "interval_seconds", 900)
max_cycles == Get(cfg, "max_cycles", 1)
min_matches == Get(cfg, "min_matches", 0)
source_cfg == cfg.source
source_type == source_cfg.type
engine == Get(source_cfg, "engine", "duckduckgo")
site == Get(source_cfg, "site", <<"d", "u", "c", "k", "d", "u", "c", "k", "g", "o">>)
max_results == Get(source_cfg, "max_results", 10)

\* whether a configuration can call browser_search_fetch
UsesBrowser(c) ==
    \/ c.source.type = "browser_search"
    \/ c.source.type = "search_engine" /\ Get(c.source, "engine", "duckduckgo") = "browser"

Did(op, k, arg) == [op |-> op, cycle |-> k, arg |-> arg]

\* requests.get or raise_for_status raised
FetchError == <<"RequestException">>

\* a break one cycle late, and a break that forgets `not repeat`
BreaksOffByOne(rep, k, maxc) == ~rep \/ k > maxc

BreaksIgnoresRepeat(rep, k, maxc) == k >= maxc

\* if not repeat or cycle >= max_cycles: break
Breaks(rep, k, maxc) == ~rep \/ k >= maxc

Init ==
    /\ cfg \in Configs
    /\ pc = "loop"
    /\ cycle = 0
    /\ events = <<>>
    /\ qi = 0
    /\ artifact = <<>>
    /\ progress = <<>>
    /\ hist = <<>>
    /\ exc = <<>>
    /\ uc \in IF UsesBrowser(cfg) THEN BOOLEAN ELSE {TRUE}
    /\ drivers = {}
    /\ mEvent = <<>>
    /\ mRule = <<>>
    /\ mOut = <<>>
    /\ pHtml = <<>>
    /\ pCfg = <<>>
    /\ pOut = <<>>
    /\ GuiIdle

(***************************************************************************)
(* The source adapters of a cycle.  What a file or a server holds, and     *)
(* whether a read or a request succeeds, is the environment's choice.      *)
(***************************************************************************)
\* file_html: html_path.read_text raises when the file cannot be read
CycleFileHtml ==
    /\ pc = "loop"
    /\ source_type = "file_html"
    /\ cycle' = cycle + 1
    /\ \/ \E html \in Pages :
            /\ events' = parse_events_from_html(html, Get(source_cfg, "name", <<"s", "a", "m", "p", "l", "e", "_", "f", "o", "r", "u", "m">>))
            /\ pc' = "process"
            /\ hist' = Append(hist, Did("fetch", cycle + 1, source_cfg.path))
            /\ UNCHANGED exc
       \/ /\ pc' = "error"
          /\ exc' = <<"OSError">>
          /\ hist' = Append(hist, Did("fetch", cycle + 1, source_cfg.path))
          /\ UNCHANGED events
    /\ UNCHANGED <<cfg, qi, artifact, progress>>
    /\ UNCHANGED <<uc, drivers>>
    /\ UNCHANGED pureVars

\* an http_html cycle whose fetch error is caught: the cycle is given up and
\* the scheduler goes on to its sleep
CycleHttpHtmlSwallows ==
    /\ pc = "loop"
    /\ source_type = "http_html"
    /\ cycle' = cycle + 1
    /\ hist' = Append(hist, Did("fetch", cycle + 1, source_cfg.url))
    /\ \/ \E html \in Pages :
            /\ events' = parse_events_with_selectors(html, source_cfg,
                                                     Get(source_cfg, "name", <<"h", "t", "t", "p", "_", "s", "o", "u", "r", "c", "e">>))
            /\ pc' = "process"
            /\ UNCHANGED exc
       \/ /\ pc' = IF Breaks(repeat, cycle + 1, max_cycles) THEN "done" ELSE "sleep"
          /\ exc' = FetchError
          /\ UNCHANGED events
    /\ UNCHANGED <<cfg, qi, artifact, progress>>
    /\ UNCHANGED <<uc, drivers>>
    /\ UNCHANGED pureVars

\* http_html: requests.get raises, or raise_for_status does on a non-2xx answer
CycleHttpHtml ==
    /\ pc = "loop"
    /\ source_type = "http_html"
    /\ cycle' = cycle + 1
    /\ hist' = Append(hist, Did("fetch", cycle + 1, source_cfg.url))
    /\ \/ \E html \in Pages :
            /\ events' = parse_events_with_selectors(html, source_cfg,
                                                     Get(source_cfg, "name", <<"h", "t", "t", "p", "_", "s", "o", "u", "r", "c", "e">>))
            /\ pc' = "process"
            /\ UNCHANGED exc
       \/ /\ pc' = "error"
          /\ exc' = FetchError
          /\ UNCHANGED events
    /\ UNCHANGED <<cfg, qi, artifact, progress>>
    /\ UNCHANGED <<uc, drivers>>
    /\ UNCHANGED pureVars

\* http_html_search: events = [] and the loop over the queries begins
CycleSearch ==
    /\ pc = "loop"
    /\ source_type = "http_html_search"
    /\ cycle' = cycle + 1
    /\ events' = <<>>
    /\ qi' = 1
    /\ pc' = "query"
    /\ UNCHANGED <<cfg, artifact, progress, hist, exc>>
    /\ UNCHANGED <<uc, drivers>>
    /\ UNCHANGED pureVars

\* a query loop that skips a failed query and keeps what it has
SearchQuerySkips ==
    /\ pc = "query"
    /\ LET queries == Get(source_cfg, "queries", <<>>)
       IN IF qi > Len(queries)
          THEN /\ pc' = "process"
               /\ UNCHANGED <<events, qi, hist, exc>>
          ELSE /\ hist' = Append(hist, Did("fetch", cycle, queries[qi]))
               /\ qi' = qi + 1
               /\ pc' = "query"
               /\ \/ \E html \in Pages :
                       /\ events' = events \o TagQuery(
                              parse_events_with_selectors(
                                  html, source_cfg, Get(source_cfg, "name", <<"s", "e", "a", "r", "c", "h", "_", "s", "o", "u", "r", "c", "e">>)),
                              queries[qi])
                       /\ UNCHANGED exc
                  \/ /\ exc' = FetchError
                     /\ UNCHANGED events
    /\ UNCHANGED <<cfg, cycle, artifact, progress>>
    /\ UNCHANGED <<uc, drivers>>
    /\ UNCHANGED pureVars

\* one pass of `for q in queries`, or the end of the loop
SearchQuery ==
    /\ pc = "query"
    /\ LET queries == Get(source_cfg, "queries", <<>>)
       IN IF qi > Len(queries)
          THEN /\ pc' = "process"
               /\ UNCHANGED <<events, qi, hist, exc>>
          ELSE /\ hist' = Append(hist, Did("fetch", cycle, queries[qi]))
               /\ \/ \E html \in Pages :
                       /\ events' = events \o TagQuery(
                              parse_events_with_selectors(
                                  html, source_cfg, Get(source_cfg, "name", <<"s", "e", "a", "r", "c", "h", "_", "s", "o", "u", "r", "c", "e">>)),
                              queries[qi])
                       /\ qi' = qi + 1
                       /\ pc' = "query"
                       /\ UNCHANGED exc
                  \/ /\ pc' = "error"
                     /\ exc' = FetchError
                     /\ UNCHANGED <<events, qi>>
    /\ UNCHANGED <<cfg, cycle, artifact, progress>>
    /\ UNCHANGED <<uc, drivers>>
    /\ UNCHANGED pureVars

(***************************************************************************)
(* browser_search_fetch.  Whether Chrome starts, a page loads, the search  *)
(* box and the results show up, and quit() works, is the environment's     *)
(* choice.  login_prompted is False in the first pass of the loop of a     *)
(* call and in no other, so the pause for the operator ("pause") is that   *)
(* of a first pass.                                                        *)
(***************************************************************************)
ImportError == <<"ImportError">>

WebDriverException == <<"WebDriverException">>

\* the number of sessions opened so far
Opened == Cardinality({i \in DOMAIN hist : hist[i].op = "open"})

\* browser_search_fetch(sc) up to the loop over the queries, called in
\* cycle k
BrowserEnter(sc, k) ==
    IF ~uc
    THEN /\ pc' = "error"
         /\ exc' = ImportError
         /\ UNCHANGED <<events, qi, drivers, hist>>
    ELSE IF Get(sc, "search_page_url", <<>>) = <<>>
    THEN /\ events' = <<>>
         /\ pc' = "process"
         /\ UNCHANGED <<exc, qi, drivers, hist>>
    ELSE \/ /\ drivers' = drivers \cup {Opened + 1}
            /\ hist' = Append(hist, Did("open", k, <<>>))
            /\ events' = <<>>
            /\ qi' = 1
            /\ pc' = "browser"
            /\ UNCHANGED exc
         \/ /\ pc' = "error"
            /\ exc' = WebDriverException
            /\ UNCHANGED <<events, qi, drivers, hist>>

\* source_type == "browser_search"
CycleBrowserSearch ==
    /\ pc = "loop"
    /\ source_type = "browser_search"
    /\ cycle' = cycle + 1
    /\ BrowserEnter(source_cfg, cycle + 1)
    /\ UNCHANGED <<cfg, artifact, progress, uc>>
    /\ UNCHANGED pureVars

\* a loop that lets an exception out without quitting the browser
BrowserQueryLeaks ==
    /\ pc = "browser"
    /\ LET queries == Get(source_cfg, "queries", <<>>)
           sel == Get(source_cfg, "selectors", <<>>)
       IN IF qi > Len(queries)
          THEN /\ pc' = "quit"
               /\ UNCHANGED <<events, qi, hist, exc>>
          ELSE LET q == queries[qi]
                   got == Did("get", cycle, UrlFor(Get(source_cfg, "search_page_url", <<>>), q))
               IN \/ \E html \in BrowserPages, swallowed \in SUBSET {"input", "wait"} :
                        /\ ("input" \in swallowed) => Get(sel, "search_input", "") # ""
                        /\ hist' = hist \o <<got>>
                              \o (IF Get(source_cfg, "wait_login", FALSE) /\ qi = 1
                                  THEN <<Did("pause", cycle, <<>>)>> ELSE <<>>)
                              \o (IF "input" \in swallowed
                                  THEN <<Did("warn", cycle, <<"i", "n", "p", "u", "t">>)>> ELSE <<>>)
                              \o (IF "wait" \in swallowed
                                  THEN <<Did("warn", cycle, <<"w", "a", "i", "t">>)>> ELSE <<>>)
                        /\ events' = events \o TagQuery(
                               parse_events_with_selectors(
                                   html, source_cfg, Get(source_cfg, "name", <<"b", "r", "o", "w", "s", "e", "r", "_", "s", "o", "u", "r", "c", "e">>)),
                               q)
                        /\ qi' = qi + 1
                        /\ pc' = "browser"
                        /\ UNCHANGED exc
                  \/ /\ hist' = Append(hist, got)
                     /\ exc' = WebDriverException
                     /\ pc' = "error"
                     /\ UNCHANGED <<events, qi>>
    /\ UNCHANGED <<cfg, cycle, artifact, progress, uc, drivers>>
    /\ UNCHANGED pureVars

\* one pass of `for q in queries` inside the try, or the end of the loop:
\* driver.get or page_source may raise; a failure to find the search box or
\* the results is logged and the pass goes on
BrowserQuery ==
    /\ pc = "browser"
    /\ LET queries == Get(source_cfg, "queries", <<>>)
           sel == Get(source_cfg, "selectors", <<>>)
       IN IF qi > Len(queries)
          THEN /\ pc' = "quit"
               /\ UNCHANGED <<events, qi, hist, exc>>
          ELSE LET q == queries[qi]
                   got == Did("get", cycle, UrlFor(Get(source_cfg, "search_page_url", <<>>), q))
               IN \/ \E html \in BrowserPages, swallowed \in SUBSET {"input", "wait"} :
                        /\ ("input" \in swallowed) => Get(sel, "search_input", "") # ""
                        /\ hist' = hist \o <<got>>
                              \o (IF Get(source_cfg, "wait_login", FALSE) /\ qi = 1
                                  THEN <<Did("pause", cycle, <<>>)>> ELSE <<>>)
                              \o (IF "input" \in swallowed
                                  THEN <<Did("warn", cycle, <<"i", "n", "p", "u", "t">>)>> ELSE <<>>)
                              \o (IF "wait" \in swallowed
                                  THEN <<Did("warn", cycle, <<"w", "a", "i", "t">>)>> ELSE <<>>)
                        /\ events' = events \o TagQuery(
                               parse_events_with_selectors(
                                   html, source_cfg, Get(source_cfg, "name", <<"b", "r", "o", "w", "s", "e", "r", "_", "s", "o", "u", "r", "c", "e">>)),
                               q)
                        /\ qi' = qi + 1
                        /\ pc' = "browser"
                        /\ UNCHANGED exc
                  \/ /\ hist' = Append(hist, got)
                     /\ exc' = WebDriverException
                     /\ pc' = "quit"
                     /\ UNCHANGED <<events, qi>>
    /\ UNCHANGED <<cfg, cycle, artifact, progress, uc, drivers>>
    /\ UNCHANGED pureVars

\* finally: driver.quit(), whose own exception is passed over; then the
\* events are returned or the exception of the loop goes on
BrowserQuit ==
    /\ pc = "quit"
    /\ \E outcome \in {"ok", "raised"} :
          hist' = Append(hist, Did("quit", cycle, <<outcome>>))
    /\ drivers' = drivers \ {Opened}
    /\ pc' = IF exc # <<>> THEN "error" ELSE "process"
    /\ UNCHANGED <<cfg, cycle, events, qi, artifact, progress, exc, uc>>
    /\ UNCHANGED pureVars

(***************************************************************************)
(* search_engine: duckduckgo_search_fetch, and the browser with the site's *)
(* defaults.                                                               *)
(***************************************************************************)
\* engine == "duckduckgo"
CycleDuckDuckGo ==
    /\ pc = "loop"
    /\ source_type = "search_engine"
    /\ engine = "duckduckgo"
    /\ cycle' = cycle + 1
    /\ events' = <<>>
    /\ qi' = 1
    /\ pc' = "ddg"
    /\ UNCHANGED <<cfg, artifact, progress, hist, exc, uc, drivers>>
    /\ UNCHANGED pureVars

\* engine == "browser": apply_site_defaults writes into source_cfg, which
\* is cfg["source"] itself
CycleEngineBrowser ==
    /\ pc = "loop"
    /\ source_type = "search_engine"
    /\ engine = "browser"
    /\ cycle' = cycle + 1
    /\ LET applied == apply_site_defaults(source_cfg, site)
       IN /\ cfg' = [cfg EXCEPT !.source = applied.source_cfg]
          /\ IF ~applied.filled \/ Get(applied.source_cfg, "search_page_url", <<>>) = <<>>
             THEN /\ events' = <<>>
                  /\ qi' = 1
                  /\ pc' = "ddg"
                  /\ UNCHANGED <<hist, exc, drivers>>
             ELSE BrowserEnter(applied.source_cfg, cycle + 1)
    /\ UNCHANGED <<artifact, progress, uc>>
    /\ UNCHANGED pureVars

\* the site duckduckgo_search_fetch is called with
DdgSite == IF engine = "duckduckgo" THEN site ELSE <<"d", "u", "c", "k", "d", "u", "c", "k", "g", "o">>

\* a loop in which a failed request ends the adapter with what it has
DdgQueryAborts ==
    /\ pc = "ddg"
    /\ LET queries == Get(source_cfg, "queries", <<>>)
       IN IF qi > Len(queries)
          THEN /\ pc' = "process"
               /\ UNCHANGED <<events, qi, hist>>
          ELSE LET asked == Did("fetch", cycle, full_q(DdgSite, queries[qi]))
               IN \/ \E html \in DdgPages :
                       /\ events' = events \o DdgResults(html, DdgSite, queries[qi], max_results)
                       /\ hist' = Append(hist, asked)
                       /\ qi' = qi + 1
                       /\ pc' = "ddg"
                  \/ /\ hist' = hist \o <<asked, Did("warn", cycle, queries[qi])>>
                     /\ qi' = Len(queries) + 1
                     /\ pc' = "ddg"
                     /\ UNCHANGED events
    /\ UNCHANGED <<cfg, cycle, artifact, progress, exc, uc, drivers>>
    /\ UNCHANGED pureVars

\* one pass of `for q in queries` of duckduckgo_search_fetch, or its end:
\* whatever the request raises is logged ("warn") and the loop goes on
DdgQuery ==
    /\ pc = "ddg"
    /\ LET queries == Get(source_cfg, "queries", <<>>)
       IN IF qi > Len(queries)
          THEN /\ pc' = "process"
               /\ UNCHANGED <<events, qi, hist>>
          ELSE LET asked == Did("fetch", cycle, full_q(DdgSite, queries[qi]))
               IN /\ qi' = qi + 1
                  /\ pc' = "ddg"
                  /\ \/ \E html \in DdgPages :
                          /\ events' = events \o DdgResults(html, DdgSite, queries[qi],
                                                             max_results)
                          /\ hist' = Append(hist, asked)
                     \/ /\ hist' = hist \o <<asked, Did("warn", cycle, queries[qi])>>
                        /\ UNCHANGED events
    /\ UNCHANGED <<cfg, cycle, artifact, progress, exc, uc, drivers>>
    /\ UNCHANGED pureVars

\* an unsupported source that costs the cycle only: the scheduler sleeps
\* and tries again
CycleUnsupportedRetries ==
    /\ pc = "loop"
    /\ \/ source_type \notin {"file_html", "http_html", "http_html_search", "browser_search",
                             "search_engine"}
       \/ source_type = "search_engine" /\ engine \notin {"duckduckgo", "browser"}
    /\ cycle' = cycle + 1
    /\ pc' = IF ~repeat \/ cycle + 1 >= max_cycles THEN "error" ELSE "sleep"
    /\ exc' = <<"ValueError">>
    /\ UNCHANGED <<cfg, events, qi, artifact, progress, hist>>
    /\ UNCHANGED <<uc, drivers>>
    /\ UNCHANGED pureVars

\* raise ValueError(f"Unsupported search_engine engine: {engine}") and
\* raise ValueError(f"Unsupported source type: {source_type}")
CycleUnsupported ==
    /\ pc = "loop"
    /\ \/ source_type \notin {"file_html", "http_html", "http_html_search", "browser_search",
                             "search_engine"}
       \/ source_type = "search_engine" /\ engine \notin {"duckduckgo", "browser"}
    /\ cycle' = cycle + 1
    /\ pc' = "error"
    /\ exc' = <<"ValueError">>
    /\ UNCHANGED <<cfg, events, qi, artifact, progress, hist>>
    /\ UNCHANGED <<uc, drivers>>
    /\ UNCHANGED pureVars

(***************************************************************************)
(* The rest of a cycle: filter, match, render, write the artifact, log the *)
(* progress line, and break or go to sleep.                                *)
(***************************************************************************)
\* a cycle that ends the run when it is below the threshold
ProcessAndWriteStopsOnWarning ==
    /\ pc = "process"
    /\ \E acc \in {EventLoop(events, rules, templates, 1, FreshLists)} :
          IF acc.raised
          THEN /\ pc' = "error"
               /\ exc' = KeyError
               /\ UNCHANGED <<artifact, progress, hist>>
          ELSE /\ artifact' = WriteText(artifact, OutputData(language, cycle, events, acc))
               /\ progress' = << [status |-> IF acc.matched_events >= min_matches
                                              THEN "OK" ELSE "WARN",
                                  cycle |-> cycle,
                                  total_events |-> Len(events),
                                  matched_events |-> acc.matched_events] >>
               /\ hist' = hist \o <<Did("write", cycle, <<>>), Did("log", cycle, <<>>)>>
               /\ pc' = IF Breaks(repeat, cycle, max_cycles)
                           \/ acc.matched_events < min_matches
                        THEN "done" ELSE "sleep"
               /\ UNCHANGED exc
    /\ UNCHANGED <<cfg, cycle, events, qi>>
    /\ UNCHANGED <<uc, drivers>>
    /\ UNCHANGED pureVars

\* a cycle that writes what it has when a template cannot be rendered
ProcessAndWritePartial ==
    /\ pc = "process"
    /\ \E acc \in {EventLoop(events, rules, templates, 1, FreshLists)} :
          /\ artifact' = WriteText(artifact, OutputData(language, cycle, events, acc))
          /\ IF acc.raised
             THEN /\ pc' = "error"
                  /\ exc' = KeyError
                  /\ hist' = Append(hist, Did("write", cycle, <<>>))
                  /\ UNCHANGED progress
             ELSE /\ progress' = << [status |-> IF acc.matched_events >= min_matches
                                                 THEN "OK" ELSE "WARN",
                                     cycle |-> cycle,
                                     total_events |-> Len(events),
                                     matched_events |-> acc.matched_events] >>
                  /\ hist' = hist \o <<Did("write", cycle, <<>>), Did("log", cycle, <<>>)>>
                  /\ pc' = IF Breaks(repeat, cycle, max_cycles) THEN "done" ELSE "sleep"
                  /\ UNCHANGED exc
    /\ UNCHANGED <<cfg, cycle, events, qi>>
    /\ UNCHANGED <<uc, drivers>>
    /\ UNCHANGED pureVars

ProcessAndWrite ==
    /\ pc = "process"
    /\ \E acc \in {EventLoop(events, rules, templates, 1, FreshLists)} :
          IF acc.raised
          THEN /\ pc' = "error"
               /\ exc' = KeyError
               /\ UNCHANGED <<artifact, progress, hist>>
          ELSE /\ artifact' = WriteText(artifact, OutputData(language, cycle, events, acc))
               /\ progress' = << [status |-> IF acc.matched_events >= min_matches
                                              THEN "OK" ELSE "WARN",
                                  cycle |-> cycle,
                                  total_events |-> Len(events),
                                  matched_events |-> acc.matched_events] >>
               /\ hist' = hist \o <<Did("write", cycle, <<>>), Did("log", cycle, <<>>)>>
               /\ pc' = IF Breaks(repeat, cycle, max_cycles) THEN "done" ELSE "sleep"
               /\ UNCHANGED exc
    /\ UNCHANGED <<cfg, cycle, events, qi>>
    /\ UNCHANGED <<uc, drivers>>
    /\ UNCHANGED pureVars

\* time.sleep(interval): raises ValueError on a negative length
Sleep ==
    /\ pc = "sleep"
    /\ IF interval < 0
       THEN /\ pc' = "error"
            /\ exc' = <<"ValueError">>
            /\ UNCHANGED hist
       ELSE /\ pc' = "loop"
            /\ hist' = Append(hist, Did("sleep", cycle, <<interval>>))
            /\ UNCHANGED exc
    /\ UNCHANGED <<cfg, cycle, events, qi, artifact, progress>>
    /\ UNCHANGED <<uc, drivers>>
    /\ UNCHANGED pureVars

Next ==
    \/ CycleFileHtml
    \/ CycleHttpHtml
    \/ CycleSearch
    \/ SearchQuery
    \/ CycleBrowserSearch
    \/ BrowserQuery
    \/ BrowserQuit
    \/ CycleDuckDuckGo
    \/ CycleEngineBrowser
    \/ DdgQuery
    \/ CycleUnsupported
    \/ ProcessAndWrite
    \/ Sleep

Spec == Init /\ [][Next]_vars

\* main() is one thread and nothing but the sleep and the requests, which
\* return or raise, holds it up: whatever it can do next, it does.
\* ProcessAndWrite has no guard but pc = "process" and always leaves it, so
\* weak fairness of ProcessAndWrite is []<>(pc # "process"), which is the form
\* stated here.
FairSpec ==
    /\ Spec
    /\ WF_vars(CycleFileHtml \/ CycleHttpHtml \/ CycleSearch \/ SearchQuery
                \/ CycleBrowserSearch \/ BrowserQuery \/ BrowserQuit \/ CycleDuckDuckGo
                \/ CycleEngineBrowser \/ DdgQuery \/ CycleUnsupported \/ Sleep)
    /\ []<>(pc # "process")

(***************************************************************************)
(* parse_events_with_selectors on its own: a document, a source            *)
(* configuration and a source name drawn from bounded sets, and one call.  *)
(***************************************************************************)
ParsePages ==
    Pages \cup
    { <<Bare>>, <<Full, Bare>>, <<Bare, Item, Full>>, <<Item, LinkNoHref, Item>>,
      <<LinkNoHref, Banner, Bare>> }

ParseSelectors ==
    { <<>>,
      [container |-> "div.item", title |-> "h3", link |-> "a.more", id_attr |-> "data-tid"],
      [container |-> "article", content |-> "div.body", created_at_attr |-> "",
       lang_attr |-> ""] }

ParseCfgs ==
    { [type |-> "http_html"] } \cup { [type |-> "http_html", selectors |-> sel] : sel \in ParseSelectors }

ParseNames == { <<"f", "o", "r", "u", "m">>, <<"s">> }

InitParse ==
    /\ cfg = <<>>
    /\ pc = "done"
    /\ cycle = 0
    /\ events = <<>>
    /\ qi = 0
    /\ artifact = <<>>
    /\ progress = <<>>
    /\ hist = <<>>
    /\ exc = <<>>
    /\ uc = TRUE
    /\ drivers = {}
    /\ mEvent = <<>>
    /\ mRule = <<>>
    /\ mOut = <<>>
    /\ pHtml \in ParsePages
    /\ pCfg \in { [cfg |-> c, source_name |-> n] : c \in ParseCfgs, n \in ParseNames }
    /\ pOut = <<>>
    /\ GuiIdle

\* pOut = parse_events_with_selectors(pHtml, cfg, source_name)
CallParse ==
    /\ pOut = <<>>
    /\ pOut' = <<parse_events_with_selectors(pHtml, pCfg.cfg, pCfg.source_name)>>
    /\ UNCHANGED <<pHtml, pCfg>>
    /\ UNCHANGED runVars
    /\ UNCHANGED guiVars
    /\ UNCHANGED matcherVars

NextParse == CallParse

SpecParse == InitParse /\ [][NextParse]_vars

(***************************************************************************)
(* The control surface, gui_monitor.py.  start_run runs on the UI thread   *)
(* and starts a worker thread, which launches main() as a subprocess and   *)
(* reads its output line by line.  A worker stands at "start" (the thread  *)
(* is started and has executed nothing), "popen" (it has set the flag),    *)
(* "read" (its subprocess is launched and not yet waited for), "finally"   *)
(* or "done".                                                              *)
(***************************************************************************)
\* the start_run invocations that get as far as starting a thread
MaxRuns == 2

Min(a, b) == IF a <= b THEN a ELSE b

\* the line main() logs at the end of a cycle
ProgressLine(status, n, n_events, matched_events, output_path) ==
    (IF status = "OK" THEN <<"[", "O", "K", "]">> ELSE <<"[", "jing", "gao", "]">>)
    \o <<" ", "di", " ">> \o ToStr(n) \o <<" ", "lun2", ":", " ", "shi", "jian", "shu", "=">> \o ToStr(n_events)
    \o <<",", " ", "ming", "zhong1", "=">> \o ToStr(matched_events) \o <<",", " ", "shu1", "chu", "=">> \o output_path

\* the lines main() can log at the end of cycle n
ProgressLines(n) ==
    { ProgressLine(st, n, k, m, <<"o", "u", "t", ".", "j", "s", "o", "n">>) : st \in {"OK", "WARN"}, k \in 0..1, m \in 0..1 }

\* str.split(): the parts between the blanks
RECURSIVE Split(_)
Split(s) ==
    IF s = <<>> THEN <<>>
    ELSE IF Head(s) = " " THEN Split(Tail(s))
    ELSE LET i == Find(s, " ", 1)
         IN IF i = 0 THEN <<s>>
            ELSE <<SubSeq(s, 1, i - 1)>> \o Split(SubSeq(s, i + 1, Len(s)))

\* s.replace(old, new), old not empty
RECURSIVE Replace(_, _, _)
Replace(s, old, new) ==
    IF s = <<>> THEN <<>>
    ELSE IF StartsWith(s, old) THEN new \o Replace(SubSeq(s, Len(old) + 1, Len(s)), old, new)
    ELSE <<Head(s)>> \o Replace(Tail(s), old, new)

\* whether int(s) returns: digits after an optional sign
IsInt(s) ==
    LET d == IF s # <<>> /\ Head(s) \in {"+", "-"} THEN Tail(s) ELSE s
    IN d # <<>> /\ \A i \in DOMAIN d : d[i] \in Range(Digits)

DigitValue(c) == (CHOOSE i \in DOMAIN Digits : Digits[i] = c) - 1

RECURSIVE Natural(_)
Natural(d) ==
    IF d = <<>> THEN 0 ELSE 10 * Natural(SubSeq(d, 1, Len(d) - 1)) + DigitValue(d[Len(d)])

\* int(s), where it returns
ToInt(s) ==
    IF Head(s) = "-" THEN 0 - Natural(Tail(s))
    ELSE IF Head(s) = "+" THEN Natural(Tail(s))
    ELSE Natural(s)

\* the body of the loop over the lines of the subprocess: the value of the
\* bar after `line`.  An exception of the parse is swallowed.
OnLine(line, value, max) ==
    IF Contains(<<"C", "y", "c", "l", "e", " ">>, line) /\ Contains(<<"e", "v", "e", "n", "t", "s", "=">>, line)
    THEN LET parts == Split(Strip(line))
             hits == {i \in DOMAIN parts : StartsWith(parts[i], <<"C", "y", "c", "l", "e">>)}
         IN IF hits = {} THEN value
            ELSE LET p == parts[CHOOSE i \in hits : \A j \in hits : i <= j]
                     t == Replace(Replace(p, <<"C", "y", "c", "l", "e">>, <<>>), <<":">>, <<>>)
                 IN IF IsInt(t) THEN Min(ToInt(t), max) ELSE value
    ELSE value

\* the configuration files of the control surface
GuiConfigs ==
    { [repeat |-> TRUE, max_cycles |-> n, interval_seconds |-> 900,
       source |-> [type |-> "file_html"]] : n \in 1..MaxCycles }
    \cup { [repeat |-> FALSE, source |-> [type |-> "file_html"]] }

InitGui ==
    /\ cfg \in GuiConfigs
    /\ pc = "done"
    /\ cycle = 0
    /\ events = <<>>
    /\ qi = 0
    /\ artifact = <<>>
    /\ progress = <<>>
    /\ hist = <<>>
    /\ exc = <<>>
    /\ uc = TRUE
    /\ drivers = {}
    /\ mEvent = <<>>
    /\ mRule = <<>>
    /\ mOut = <<>>
    /\ pHtml = <<>>
    /\ pCfg = <<>>
    /\ pOut = <<>>
    /\ GuiIdle

\* start_run, on the UI thread.  It returns at once when the flag is set
\* (and when the configuration file is missing or unreadable); else it
\* resets the bar and starts a worker thread.  The flag is not written here.
StartRun ==
    /\ IF running
       THEN UNCHANGED guiVars
       ELSE /\ Len(worker) < MaxRuns
            /\ progress_value' = 0
            /\ progress_max' = Get(cfg, "max_cycles", 1)
            /\ worker' = Append(worker, "start")
            /\ cycle_read' = Append(cycle_read, 0)
            /\ UNCHANGED running
    /\ UNCHANGED <<runVars, matcherVars, parserVars>>

\* the first statement of the worker: set_running(True)
WorkerBegin(w) ==
    /\ worker[w] = "start"
    /\ running' = TRUE
    /\ worker' = [worker EXCEPT ![w] = "popen"]
    /\ UNCHANGED <<progress_value, progress_max, cycle_read>>
    /\ UNCHANGED <<runVars, matcherVars, parserVars>>

\* subprocess.Popen: the subprocess is launched, or the launch raises
WorkerPopen(w) ==
    /\ worker[w] = "popen"
    /\ \E launched \in BOOLEAN :
          worker' = [worker EXCEPT ![w] = IF launched THEN "read" ELSE "finally"]
    /\ UNCHANGED <<running, progress_value, progress_max, cycle_read>>
    /\ UNCHANGED <<runVars, matcherVars, parserVars>>

\* the worker reads the line its subprocess logs at the end of its next
\* cycle; the subprocess has a next cycle as main() decides at its break
WorkerReadLine(w) ==
    /\ worker[w] = "read"
    /\ cycle_read[w] < MaxCycles
    /\ cycle_read[w] = 0 \/ (repeat /\ ~(max_cycles > 0 /\ cycle_read[w] >= max_cycles))
    /\ \E line \in ProgressLines(cycle_read[w] + 1) :
          progress_value' = OnLine(line, progress_value, progress_max)
    /\ cycle_read' = [cycle_read EXCEPT ![w] = @ + 1]
    /\ UNCHANGED <<running, progress_max, worker>>
    /\ UNCHANGED <<runVars, matcherVars, parserVars>>

\* the output of the subprocess ends and proc.wait() returns
WorkerWait(w) ==
    /\ worker[w] = "read"
    /\ worker' = [worker EXCEPT ![w] = "finally"]
    /\ UNCHANGED <<running, progress_value, progress_max, cycle_read>>
    /\ UNCHANGED <<runVars, matcherVars, parserVars>>

\* the finally of the worker: set_running(False), which empties the bar,
\* then the bar is filled
WorkerFinally(w) ==
    /\ worker[w] = "finally"
    /\ running' = FALSE
    /\ progress_value' = progress_max
    /\ worker' = [worker EXCEPT ![w] = "done"]
    /\ UNCHANGED <<progress_max, cycle_read>>
    /\ UNCHANGED <<runVars, matcherVars, parserVars>>

NextGui ==
    \/ StartRun
    \/ \E w \in DOMAIN worker : WorkerBegin(w)
    \/ \E w \in DOMAIN worker : WorkerPopen(w)
    \/ \E w \in DOMAIN worker : WorkerReadLine(w)
    \/ \E w \in DOMAIN worker : WorkerWait(w)
    \/ \E w \in DOMAIN worker : WorkerFinally(w)

SpecGui == InitGui /\ [][NextGui]_vars

(***************************************************************************)
(* rule_matches on its own: an event and a rule drawn from bounded sets,   *)
(* and one call.                                                           *)
(***************************************************************************)
MatchEvents ==
    { [title |-> <<"H", "e", "l", "p", " ", "m", "e">>, content |-> <<"n", "o", " ", "s", "p", "a", "m">>, source |-> <<"F", "o", "r", "u", "m">>],
      [title |-> <<"qiu", "zhu", " ", "lun", "wen", "jiang", "zhong">>, content |-> <<>>, source |-> <<"z", "z">>],
      [source |-> <<"f", "o", "r", "u", "m">>] }

MatchFields == {"title", "url"}

MatchValues == { <<"H", "E", "L", "P">>, <<"z", "z">> }

MatchValueLists == { <<>>, << <<"z", "z">>, <<"qiu", "zhu">> >> }

MatchConds ==
    { [type |-> t, field |-> f, value |-> v] :
        t \in {"contains", "equals", "regex"}, f \in MatchFields, v \in MatchValues }
    \cup
    { [type |-> t, field |-> f, values |-> vs] :
        t \in {"contains_any", "not_contains_any"}, f \in MatchFields,
        vs \in MatchValueLists }

\* the condition lists of at most MaxConds conditions
CondLists == UNION { [1..n -> MatchConds] : n \in 0..MaxConds }

MatchRules == { [id |-> <<"r">>, conditions |-> cs] : cs \in CondLists } \cup { [id |-> <<"r">>] }

InitMatch ==
    /\ cfg = <<>>
    /\ pc = "done"
    /\ cycle = 0
    /\ events = <<>>
    /\ qi = 0
    /\ artifact = <<>>
    /\ progress = <<>>
    /\ hist = <<>>
    /\ exc = <<>>
    /\ uc = TRUE
    /\ drivers = {}
    /\ mEvent \in MatchEvents
    /\ mRule \in MatchRules
    /\ mOut = <<>>
    /\ pHtml = <<>>
    /\ pCfg = <<>>
    /\ pOut = <<>>
    /\ GuiIdle

\* mOut = rule_matches(mEvent, mRule)
CallRuleMatches ==
    /\ mOut = <<>>
    /\ mOut' = <<rule_matches(mEvent, mRule)>>
    /\ UNCHANGED <<mEvent, mRule>>
    /\ UNCHANGED runVars
    /\ UNCHANGED guiVars
    /\ UNCHANGED parserVars

NextMatch == CallRuleMatches

SpecMatch == InitMatch /\ [][NextMatch]_vars

(***************************************************************************)
(* The claims.                                                             *)
(***************************************************************************)
Final == {"done", "error"}

\* the documents written so far
NumWrites == Cardinality({i \in DOMAIN hist : hist[i].op = "write"})

\* the writes and sleeps of the run, in order
WritesAndSleeps == SelectSeq(hist, LAMBDA h : h.op \in {"write", "sleep"})

\* C1: with repeat=true and max_cycles=N>=1, a run that returns without a
\* failure has written N times, the k-th write with cycle=k, with exactly one
\* sleep of interval_seconds between two consecutive writes and none after
\* the last
C1_WritesAndSleepsAlternate ==
    (pc = "done" /\ repeat /\ max_cycles >= 1) =>
        /\ NumWrites = max_cycles
        /\ WritesAndSleeps =
              [i \in 1..(2 * max_cycles - 1) |->
                  IF i % 2 = 1 THEN Did("write", (i + 1) \div 2, <<>>)
                  ELSE Did("sleep", i \div 2, <<interval>>)]
        /\ artifact[1].cycle = max_cycles

C1_Witness ==
    /\ pc = "done" /\ repeat /\ max_cycles = 3 /\ cycle = 3
    /\ Len(WritesAndSleeps) = 5
    /\ artifact[1].cycle = 3

\* C2: the run always ends; a cycle after the first starts only while repeat
\* is enabled and the cycle count is below max_cycles; a run that returns has
\* run max_cycles cycles when repeat is enabled and max_cycles > 1, and
\* exactly one cycle otherwise
C2_SchedulerTerminates ==
    /\ <>(pc \in Final)
    /\ [][cycle' # cycle =>
            /\ cycle' = cycle + 1
            /\ cycle > 0 => (repeat /\ cycle < max_cycles)]_vars
    /\ [](pc = "done" => cycle = IF repeat /\ max_cycles > 1 THEN max_cycles ELSE 1)
    /\ [](~repeat \/ max_cycles <= 1 => cycle <= 1)

C2_Witness == pc = "done" /\ repeat /\ max_cycles <= 0 /\ cycle = 1 /\ NumWrites = 1

\* no write of the current cycle has happened
NoWriteThisCycle == \A i \in DOMAIN hist : hist[i].op = "write" => hist[i].cycle < cycle

\* C3 as stated: a fetch error in a cycle, with repeat enabled and the cycle
\* count below max_cycles, leaves no artifact of that cycle and does not end
\* the run (the scheduler sleeps and goes on to the next cycle)
C3_Original_SleepsAfterFetchError ==
    (exc = FetchError /\ repeat /\ cycle < max_cycles) =>
        (NoWriteThisCycle /\ pc # "error")

\* C3 as amended: a fetch error in a cycle leaves no artifact of that cycle
\* and ends the run: the failed request is the last thing the run did, no
\* sleep and no further cycle follow
C3_FetchErrorEndsRun ==
    exc = FetchError =>
        /\ NoWriteThisCycle
        /\ pc = "error"
        /\ hist[Len(hist)].op = "fetch"
        /\ hist[Len(hist)].cycle = cycle
        /\ ~ENABLED Next

C3_Witness ==
    /\ exc = FetchError /\ repeat /\ cycle < max_cycles /\ cycle = 2
    /\ source_type = "http_html"
    /\ NumWrites = 1

\* C4: a fetch error raised in cycle k ends the run in an error state,
\* nothing happens after it, and the artifact is as cycle k-1 wrote it
\* (absent if k = 1)
C4_FetchErrorLeavesArtifact ==
    /\ [](exc = FetchError =>
            /\ pc = "error"
            /\ cycle = 1 => artifact = <<>>
            /\ cycle > 1 => (Len(artifact) = 1 /\ artifact[1].cycle = cycle - 1)
            /\ NumWrites = cycle - 1)
    /\ [][exc' = FetchError => (artifact' = artifact /\ progress' = progress)]_vars
    /\ [][exc = FetchError => UNCHANGED vars]_vars

C4_Witness ==
    /\ exc = FetchError /\ cycle = 2 /\ source_type = "http_html_search" /\ qi = 2
    /\ Len(events) > 0
    /\ Len(artifact) = 1 /\ artifact[1].cycle = 1 /\ Len(artifact[1].events) > 0

\* the document the file holds
Doc == artifact[1]

\* the enabled rules that match an event
MatchingRules(ev) ==
    {j \in DOMAIN rules : Get(rules[j], "enabled", TRUE) /\ rule_matches(ev, rules[j])}

\* C5: the artifact holds the output of exactly one cycle, the one completed
\* last: one document, its cycle the number of writes so far, and at each
\* write its events and drafts are made of the events of that cycle only
C5_ArtifactIsLatestCycle ==
    /\ [](Len(artifact) = IF NumWrites = 0 THEN 0 ELSE 1)
    /\ [](artifact # <<>> => Doc.cycle = NumWrites)
    /\ [][artifact' # artifact =>
            LET doc == artifact'[1]
                kept == SelectSeq(events, FilterPass)
            IN /\ doc.cycle = cycle
               /\ doc.total_events = Len(events)
               /\ doc.events = [i \in DOMAIN kept |-> Brief(kept[i])]
               /\ Len(doc.drafts) <= Len(kept) * Len(rules)
               /\ \A d \in Range(doc.drafts) :
                     \E e \in Range(kept) :
                        \E j \in MatchingRules(e) : d = generate_draft(e, rules[j], templates)
       ]_vars

C5_Witness ==
    /\ NumWrites = 2 /\ Len(artifact) = 1 /\ Doc.cycle = 2
    /\ Doc.events = <<>> /\ Doc.drafts = <<>> /\ Doc.total_events = 0
    /\ pc = "process" /\ cycle = 3 /\ Len(events) > 1

\* the (event, rule) pairs of an artifact that owe a draft: the event passed
\* the filter, the rule is enabled and matches
OwedPairs(doc) ==
    {p \in (DOMAIN doc.events) \X (DOMAIN rules) :
        FilterPass(doc.events[p[1]]) /\ p[2] \in MatchingRules(doc.events[p[1]])}

\* the place of an owed pair among the owed pairs, events first
PairRank(owed, p) ==
    Cardinality({q \in owed : q[1] < p[1] \/ (q[1] = p[1] /\ q[2] <= p[2])})

\* C6: in every written artifact the drafts are one per pair (event, rule)
\* with the event past the filter and the rule enabled and matching, and no
\* other: as many drafts as such pairs, and each pair has the draft of its
\* place, which names its event and its rule
C6_OneDraftPerMatchingPair ==
    artifact # <<>> =>
        LET owed == OwedPairs(Doc)
        IN /\ Len(Doc.drafts) = Cardinality(owed)
           /\ \A p \in owed :
                 LET d == Doc.drafts[PairRank(owed, p)]
                 IN /\ d.event_id = Doc.events[p[1]].id
                    /\ d.rule_id = rules[p[2]].id

\* an event matched by two enabled rules next to a disabled rule and a rule
\* that does not match, and a fetched event the filter dropped
C6_Witness ==
    /\ artifact # <<>>
    /\ Len(Doc.drafts) = 2
    /\ Len(Doc.events) = 1
    /\ Doc.total_events = 2
    /\ Len(rules) = 5

\* the host of a URL as the reader of the artifact sees it: the authority
\* after "scheme://" or after a leading "//", the part before the first "/"
\* of a URL that starts with a name, and none for a path
UrlHost(url) ==
    LET i == Find(url, ":", 1)
        hasScheme == i > 1 /\ \A k \in 1..(i - 1) : url[k] \in SchemeChars
        rest == IF hasScheme THEN SubSeq(url, i + 1, Len(url)) ELSE url
    IN IF StartsWith(rest, <<"/", "/">>) THEN SubSeq(rest, 3, NetlocEnd(rest, 3) - 1)
       ELSE IF hasScheme \/ rest = <<>> \/ Head(rest) = "/" THEN <<>>
       ELSE SubSeq(rest, 1, NetlocEnd(rest, 1) - 1)

UnderBlacklist(url) ==
    \E k \in DOMAIN blacklist : Contains(blacklist[k], Lower(UrlHost(url)))

\* C9: no event of a written artifact has a URL whose host holds a
\* blacklisted domain
C9_NoBlacklistedHost ==
    artifact # <<>> => \A e \in Range(Doc.events) : ~UnderBlacklist(e.url)

\* C10: the filter applied to the events a cycle persisted keeps every entry,
\* in the same order
C10_FilterIdempotent ==
    artifact # <<>> =>
        EventLoop(Doc.events, <<>>, <<>>, 1, FreshLists).events_brief = Doc.events

\* a persisted event kept for its path alone, next to a fetched one dropped
C10_Witness ==
    /\ artifact # <<>>
    /\ Doc.total_events > Len(Doc.events)
    /\ \E e \in Range(Doc.events) :
          /\ e.url # <<>>
          /\ ~(\E k \in DOMAIN want_words : Contains(Lower(want_words[k]), Lower(e.title)))

\* what the data model says of one condition: the check its type names on the
\* lower-cased field (no text for a field that is none of the three), and no
\* pass for a type that is none of the four
FieldText(event, cond) ==
    LET f == Get(cond, "field", "")
    IN IF f \in {"title", "content", "source"} THEN Lower(Get(event, f, <<>>)) ELSE <<>>

Passes(event, cond) ==
    LET t == Get(cond, "type", "None")
        text == FieldText(event, cond)
        vals == Get(cond, "values", <<>>)
    IN CASE t = "contains" -> Contains(Lower(Get(cond, "value", <<>>)), text)
         [] t = "equals" -> text = Lower(Get(cond, "value", <<>>))
         [] t = "contains_any" -> \E v \in Range(vals) : Contains(Lower(v), text)
         [] t = "not_contains_any" -> \A v \in Range(vals) : ~Contains(Lower(v), text)
         [] OTHER -> FALSE

\* C7: rule_matches returns true exactly when every condition passes; so a
\* rule without conditions matches, a rule with a `contains` whose value is
\* not in the lower-cased field does not, and a rule with a condition of an
\* unrecognized type does not
C7_RuleMatchesIsConjunction ==
    mOut # <<>> =>
        LET conds == Get(mRule, "conditions", <<>>)
        IN /\ mOut[1] = (\A i \in DOMAIN conds : Passes(mEvent, conds[i]))
           /\ conds = <<>> => mOut[1]
           /\ (\E i \in DOMAIN conds :
                    /\ conds[i].type = "contains"
                    /\ ~Contains(Lower(conds[i].value), FieldText(mEvent, conds[i])))
                 => ~mOut[1]
           /\ (\E i \in DOMAIN conds :
                    conds[i].type \notin {"contains", "contains_any", "equals", "not_contains_any"})
                 => ~mOut[1]

\* a rule of two conditions that pass, the first a `contains` whose value is
\* in the field but for its case
C7_Witness ==
    /\ mOut = <<TRUE>>
    /\ Len(Get(mRule, "conditions", <<>>)) = 2
    /\ mRule.conditions[1].type = "contains"
    /\ mRule.conditions[1].value = <<"H", "E", "L", "P">>
    /\ mRule.conditions[2].type = "not_contains_any"
    /\ mRule.conditions[2].values # <<>>

\* the rule of one condition `cond` with its type replaced
OneCond(cond, t) == [id |-> <<"r">>, conditions |-> <<[cond EXCEPT !.type = t]>>]

\* C8: a single-condition rule of type not_contains_any matches an event
\* exactly when the contains_any rule of the same field and values does not
C8_NotContainsAnyNegates ==
    (/\ mOut # <<>>
     /\ Len(Get(mRule, "conditions", <<>>)) = 1
     /\ mRule.conditions[1].type \in {"contains_any", "not_contains_any"}) =>
        LET cond == mRule.conditions[1]
        IN /\ rule_matches(mEvent, OneCond(cond, "not_contains_any"))
                = ~rule_matches(mEvent, OneCond(cond, "contains_any"))
           /\ mOut[1] = rule_matches(mEvent, OneCond(cond, cond.type))
           /\ mOut[1] = ~rule_matches(mEvent,
                            OneCond(cond, IF cond.type = "contains_any"
                                          THEN "not_contains_any" ELSE "contains_any"))

\* the empty value list: not_contains_any matched
C8_Witness ==
    /\ mOut = <<TRUE>>
    /\ Len(Get(mRule, "conditions", <<>>)) = 1
    /\ mRule.conditions[1].type = "not_contains_any"
    /\ mRule.conditions[1].values = <<>>
    /\ "title" \in DOMAIN mEvent

\* the fields every event has
EventFields == {"id", "source", "url", "title", "content", "created_at", "lang", "metadata"}

\* the nodes of a document the container selector of a configuration matches
Matched(html, c) ==
    SelectSeq(html, LAMBDA n : n.sel = Get(Get(c, "selectors", <<>>), "container", "article"))

\* C11: parse_events_with_selectors returns a list (it does not raise) of one
\* event per node matching the container selector, in document order; every
\* event has all its fields, its source is the source name; a missing title,
\* content or link element, or a missing created_at attribute, gives the
\* empty string, a missing lang attribute "en", a missing id attribute the id
\* <source>_<position> with the position counted from 1; a given id is kept
C11_OneEventPerContainer ==
    pOut # <<>> =>
        LET out == pOut[1]
            nodes == Matched(pHtml, pCfg.cfg)
            sel == Get(pCfg.cfg, "selectors", <<>>)
        IN /\ DOMAIN out = 1..Len(nodes)
           /\ \A i \in DOMAIN out :
                 LET ev == out[i]
                     c == nodes[i]
                     idOf == Get(c.attrs, Get(sel, "id_attr", "data-id"), <<>>)
                 IN /\ DOMAIN ev = EventFields
                    /\ ev.source = pCfg.source_name
                    /\ ev.metadata = {}
                    /\ ev.id = IF idOf # <<>> THEN idOf
                               ELSE pCfg.source_name \o <<"_">> \o ToStr(i)
                    /\ Get(sel, "title", "h2") \notin DOMAIN c.kids => ev.title = <<>>
                    /\ Get(sel, "content", "p") \notin DOMAIN c.kids => ev.content = <<>>
                    /\ Get(sel, "link", "a") \notin DOMAIN c.kids => ev.url = <<>>
                    /\ Get(sel, "link", "a") \in DOMAIN c.kids =>
                          ev.url = Get(c.kids[Get(sel, "link", "a")].attrs, "href", <<>>)
                    /\ Get(sel, "created_at_attr", "data-created-at") \notin DOMAIN c.attrs =>
                          ev.created_at = <<>>
                    /\ Get(sel, "lang_attr", "data-lang") \notin DOMAIN c.attrs =>
                          ev.lang = <<"e", "n">>

\* three containers among other nodes: the second lacks the title, the
\* content, the link's href and the id, and gets the id of its position
C11_Witness ==
    /\ pOut # <<>>
    /\ Len(pHtml) = 3
    /\ Len(pOut[1]) = 2
    /\ pOut[1][1].id = <<"s", "_", "1">>
    /\ pOut[1][2].id = <<"s", "_", "2">>
    /\ pOut[1][2].title = <<>> /\ pOut[1][2].url = <<>> /\ pOut[1][2].lang = <<"e", "n">>

\* C12 as stated: within one cycle no two events the source adapter
\* produced share an id
C12_IdsUniqueInCycle ==
    \A i, j \in DOMAIN events : i # j => events[i].id # events[j].id

\* the sleeps of the scheduler so far
NumSleeps == Cardinality({i \in DOMAIN hist : hist[i].op = "sleep"})

\* C13: the progress line of a cycle is a warning exactly when its
\* matched_events is below min_matches, and is the line of the artifact just
\* written; a run that returns has made as many cycles and sleeps as the
\* schedule alone says, whatever its lines were: one cycle without repeat or
\* with max_cycles <= 1, max_cycles otherwise, and one sleep less
C13_WarningDoesNotAlterScheduling ==
    /\ progress # <<>> =>
          /\ progress[1].status = "WARN" <=> progress[1].matched_events < min_matches
          /\ progress[1].status \in {"OK", "WARN"}
          /\ artifact # <<>>
          /\ artifact[1].cycle = progress[1].cycle
          /\ artifact[1].total_events = progress[1].total_events
          /\ artifact[1].matched_events = progress[1].matched_events
    /\ pc = "done" =>
          /\ cycle = IF repeat /\ max_cycles > 1 THEN max_cycles ELSE 1
          /\ NumWrites = cycle
          /\ NumSleeps = cycle - 1
          /\ progress[1].cycle = cycle

\* a run of two cycles that returned, its last cycle with no event at all
\* and a warning
C13_Witness ==
    /\ pc = "done"
    /\ min_matches > 0
    /\ cycle = 2 /\ NumWrites = 2 /\ NumSleeps = 1
    /\ progress[1].status = "WARN"
    /\ progress[1].total_events = 0 /\ progress[1].matched_events = 0
    /\ artifact[1].cycle = 2

\* a source of a type, or a search_engine source of an engine, main() does
\* not know
Unsupported ==
    \/ source_type \notin {"file_html", "http_html", "http_html_search", "browser_search",
                          "search_engine"}
    \/ source_type = "search_engine" /\ engine \notin {"duckduckgo", "browser"}

\* C14: with an unsupported source type or engine the run ends in an error
\* state in its first cycle, and nothing was fetched, written, logged or
\* slept before
C14_UnsupportedSourceIsFatal ==
    /\ [](Unsupported =>
            /\ cycle <= 1
            /\ hist = <<>> /\ artifact = <<>> /\ progress = <<>> /\ drivers = {}
            /\ pc \in {"loop", "error"}
            /\ pc = "error" <=> cycle = 1
            /\ pc = "error" => exc = <<"ValueError">>)
    /\ [](Unsupported => <>(pc = "error"))
    /\ [][Unsupported /\ pc = "error" => UNCHANGED vars]_vars

\* an unsupported engine of a search_engine source, with repeat set
C14_Witness ==
    /\ source_type = "search_engine" /\ engine = "bing"
    /\ repeat /\ max_cycles > 1
    /\ pc = "error" /\ cycle = 1 /\ exc = <<"ValueError">>

\* the lists of the cycle under way as they were when rendering stopped
Rendered == EventLoop(events, rules, templates, 1, FreshLists)

\* C15: when a template of a matched rule cannot be rendered the run fails
\* in that cycle and the step that fails writes nothing: the artifact, if
\* any, is the whole output of an earlier cycle, and every artifact holds
\* all the drafts of its cycle
C15_StrictRendering ==
    /\ [](exc = KeyError =>
            /\ pc = "error"
            /\ NoWriteThisCycle
            /\ artifact # <<>> => artifact[1].cycle = cycle - 1)
    /\ [][exc' = KeyError /\ exc # KeyError =>
            /\ Rendered.raised
            /\ UNCHANGED <<artifact, progress, hist>>]_vars
    /\ [][artifact' # artifact =>
            /\ ~Rendered.raised
            /\ artifact'[1].drafts = Rendered.drafts
            /\ Len(artifact') = 1]_vars

\* a second cycle that rendered a draft and then failed on the next rule:
\* the artifact is the one of the first cycle
C15_Witness ==
    /\ exc = KeyError
    /\ cycle = 2
    /\ Rendered.drafts # <<>>
    /\ artifact # <<>> /\ artifact[1].cycle = 1

\* what the cycle under way asked for, in order
Asked ==
    LET f == SelectSeq(hist, LAMBDA h : h.op = "fetch" /\ h.cycle = cycle)
    IN [i \in DOMAIN f |-> f[i].arg]

\* the queries of the source
SourceQueries == Get(source_cfg, "queries", <<>>)

\* the positions of the queries an event is tagged with
TagOf(ev) == {k \in DOMAIN SourceQueries : ev.metadata = {<<"query", SourceQueries[k]>>}}

\* the events are tagged, and stand in the order of their queries
TaggedInOrder(evs) ==
    /\ \A i \in DOMAIN evs : TagOf(evs[i]) # {}
    /\ \A i, j \in DOMAIN evs :
          i < j => \E a \in TagOf(evs[i]), b \in TagOf(evs[j]) : a <= b

\* C16: http_html_search asks its queries one at a time in the configured
\* order; when the request of query i fails it is the last request of the
\* run and the cycle writes no artifact, so the events of the queries
\* before it reach none; the events a query adds are tagged with that query,
\* and so is every event of an artifact
C16_SearchAllOrNothing ==
    /\ [](source_type = "http_html_search" =>
            /\ pc = "query" => Asked = SubSeq(SourceQueries, 1, qi - 1)
            /\ pc = "process" => Asked = SourceQueries
            /\ exc = FetchError =>
                  /\ Asked = SubSeq(SourceQueries, 1, qi)
                  /\ hist[Len(hist)].op = "fetch"
                  /\ pc = "error"
                  /\ NoWriteThisCycle
            /\ pc \in {"query", "process"} => TaggedInOrder(events)
            /\ artifact # <<>> => TaggedInOrder(artifact[1].events))
    /\ [][source_type = "http_html_search" /\ pc = "query" /\ events' # events =>
            /\ SubSeq(events', 1, Len(events)) = events
            /\ \A i \in (Len(events) + 1)..Len(events') :
                  events'[i].metadata = {<<"query", SourceQueries[qi]>>}]_vars

\* the second query of a second cycle failed after the first had brought
\* events: the artifact is the one of the first cycle
C16_Witness ==
    /\ source_type = "http_html_search"
    /\ exc = FetchError
    /\ cycle = 2 /\ qi = 2
    /\ events # <<>>
    /\ artifact # <<>> /\ artifact[1].cycle = 1

\* the queries of the cycle under way whose request failed
Warned == {k \in DOMAIN SourceQueries :
              \E i \in DOMAIN hist :
                 hist[i].op = "warn" /\ hist[i].cycle = cycle /\ hist[i].arg = SourceQueries[k]}

\* C17: duckduckgo_search_fetch asks every query once, in the configured
\* order and scoped to the site, whichever of them fail; it never raises;
\* its events are tagged with their queries, stand in the order of the
\* queries, and none is of a query that failed; a pass of its loop adds
\* nothing (the request failed) or the results of one answer; and the cycle
\* then writes its artifact with these events
C17_DdgIsolatesQueryFailures ==
    /\ [](source_type = "search_engine" /\ engine = "duckduckgo" =>
            /\ pc # "error" /\ exc = <<>>
            /\ pc = "ddg" =>
                  Asked = [k \in 1..(qi - 1) |-> full_q(site, SourceQueries[k])]
            /\ pc = "process" =>
                  Asked = [k \in DOMAIN SourceQueries |-> full_q(site, SourceQueries[k])]
            /\ pc \in {"ddg", "process"} =>
                  /\ TaggedInOrder(events)
                  /\ \A i \in DOMAIN events : TagOf(events[i]) \cap Warned = {})
    /\ [][source_type = "search_engine" /\ engine = "duckduckgo" /\ pc = "ddg"
          /\ qi <= Len(SourceQueries) =>
            /\ qi' = qi + 1
            /\ pc' = "ddg"
            /\ \/ events' = events /\ Len(hist') = Len(hist) + 2
               \/ \E html \in DdgPages :
                     events' = events \o DdgResults(html, site, SourceQueries[qi], max_results)]_vars
    /\ [][source_type = "search_engine" /\ engine = "duckduckgo" /\ pc = "process" =>
            /\ artifact'[1].cycle = cycle
            /\ artifact'[1].total_events = Len(events)
            /\ pc' \in {"sleep", "done"}]_vars

\* the first query failed, the second brought events, both were asked
C17_Witness ==
    /\ source_type = "search_engine" /\ engine = "duckduckgo"
    /\ pc = "process"
    /\ Len(Asked) = 2
    /\ Warned = {1}
    /\ events # <<>>

\* the sessions opened and quit so far, in order
OpensAndQuits == SelectSeq(hist, LAMBDA h : h.op \in {"open", "quit"})

\* C18: at most one browser session is open at a time; one is open exactly
\* while browser_search_fetch is in its loop or about to quit; quit() is
\* called once for every session opened, after it was opened and before the
\* next is; so no session is open when the adapter has returned or let an
\* exception out, whether quit() itself raised or not
C18_SessionTornDownOnce ==
    /\ Cardinality(drivers) <= 1
    /\ drivers # {} <=> pc \in {"browser", "quit"}
    /\ \A i \in DOMAIN OpensAndQuits :
          OpensAndQuits[i].op = IF i % 2 = 1 THEN "open" ELSE "quit"
    /\ Len(OpensAndQuits) = IF drivers = {} THEN 2 * Opened ELSE 2 * Opened - 1

\* the page load of the second session failed and so did quit(): the
\* exception left the adapter and no session is open
C18_Witness ==
    /\ pc = "error"
    /\ exc = WebDriverException
    /\ Opened = 2
    /\ hist[Len(hist)].op = "quit" /\ hist[Len(hist)].arg = <<"raised">>
    /\ hist[Len(hist) - 1].op = "get"
    /\ drivers = {}

\* C19 as stated: with engine=browser a search_page_url and selectors the
\* caller configured are the ones the browser adapter is called with,
\* whether the site has built-in defaults or not
C19_CallerConfigIsUsed ==
    [][(pc = "loop" /\ cycle = 0 /\ source_type = "search_engine" /\ engine = "browser"
        /\ "search_page_url" \in DOMAIN source_cfg /\ "selectors" \in DOMAIN source_cfg) =>
          /\ pc' # "ddg"
          /\ cfg'.source.search_page_url = source_cfg.search_page_url
          /\ cfg'.source.selectors = source_cfg.selectors]_vars

\* engine=browser, a site without built-in defaults, no search_page_url
NoBrowserConfig ==
    /\ source_type = "search_engine" /\ engine = "browser"
    /\ site \notin DOMAIN defaults
    /\ Get(source_cfg, "search_page_url", <<>>) = <<>>

\* C20: with engine=browser, a site without built-in defaults and no
\* search_page_url, no browser session is ever opened and no exception is
\* raised; a cycle begins with the loop of duckduckgo_search_fetch and
\* leaves the configuration as it is; every query is sent to DuckDuckGo as
\* it is, without a site: qualifier; and a cycle that has begun writes its
\* artifact
C20_BrowserFallsBackToDdg ==
    /\ [](NoBrowserConfig =>
            /\ drivers = {}
            /\ exc = <<>>
            /\ pc \notin {"browser", "quit", "error"}
            /\ \A i \in DOMAIN hist : hist[i].op \notin {"open", "get", "quit"}
            /\ pc = "ddg" => Asked = SubSeq(SourceQueries, 1, qi - 1)
            /\ pc = "process" => Asked = SourceQueries)
    /\ [][NoBrowserConfig /\ pc = "loop" =>
            /\ pc' = "ddg"
            /\ cycle' = cycle + 1
            /\ UNCHANGED <<cfg, hist, drivers, exc>>]_vars
    /\ [](NoBrowserConfig /\ pc = "ddg" => <>(artifact # <<>> /\ artifact[1].cycle = cycle))

\* a run of two cycles that returned, without the browser packages: both
\* queries were sent in each cycle
C20_Witness ==
    /\ NoBrowserConfig
    /\ ~uc
    /\ pc = "done"
    /\ cycle = 2 /\ NumWrites = 2
    /\ Asked = SourceQueries /\ Len(Asked) = 2
    /\ artifact[1].cycle = 2

\* C21 as stated: a file_html source whose configuration supplies
\* selectors extracts its events with those selectors
C21_FileHtmlHonoursSelectors ==
    [][(pc = "loop" /\ source_type = "file_html" /\ "selectors" \in DOMAIN source_cfg
        /\ pc' = "process") =>
          \E html \in Pages :
             events' = parse_events_with_selectors(html, source_cfg,
                                                   Get(source_cfg, "name", <<"s", "a", "m", "p", "l", "e", "_", "f", "o", "r", "u", "m">>))]_vars

\* the pauses for the operator so far
NumPauses == Cardinality({i \in DOMAIN hist : hist[i].op = "pause"})

\* C22 as stated: over a whole run the browser adapter pauses for the
\* operator at most once, and never without wait_login
C22_OnePausePerRun ==
    /\ NumPauses <= 1
    /\ NumPauses > 0 => Get(source_cfg, "wait_login", FALSE)

\* C24 as stated: in every written artifact matched_events is at most the
\* number of events kept, which is at most total_events
C24_MatchedCountsEvents ==
    artifact # <<>> =>
        /\ artifact[1].matched_events <= Len(artifact[1].events)
        /\ Len(artifact[1].events) <= artifact[1].total_events

\* C23 as stated: on reading the progress line of cycle k the worker sets
\* the bar to min(k, max_cycles)
C23_ProgressLineAdvances ==
    [][\A w \in DOMAIN worker :
          (Len(worker) = 1 /\ cycle_read'[w] = cycle_read[w] + 1) =>
              progress_value' = Min(cycle_read'[w], progress_max)]_vars

\* the subprocesses that are launched and not yet waited for
Subprocesses == {w \in DOMAIN worker : worker[w] = "read"}

\* C25 as stated: no two pipeline subprocesses at the same time
C25_OneSubprocess == Cardinality(Subprocesses) <= 1

=============================================================================
